---- MODULE Spec2Model ----
\* The request/session engine of api/client.go: the session (Client), the
\* request descriptor (R) with its builder steps, the retrying round trip
\* (R.Response, R.Do), Client.Close and Client.Info.
EXTENDS Integers, Sequences, FiniteSets, TLC

\* ------------------------------------------------------------------ bounds

\* Number of caller threads of the concurrent specification.
NProcs == 2
\* Builder steps one descriptor may take before it is executed.
MaxSteps == 2
\* Client calls one caller thread makes.
MaxCalls == 2
\* Client calls one caller thread makes when several threads run.
ConcCalls == 1
\* Length in bytes of a request body.
BodyLen == 1
\* Ticks of the refresh ticker a session lives through.
MaxTicks == 2

Procs == 1..NProcs

\* ------------------------------------------------------- program constants

\* A faulty backoff schedule, one entry short: the loop would give up after
\* five attempts.
timeoutsShort == <<1, 1, 2, 3, 5>>

\* A schedule that does not repeat its first entry.
timeoutsFib == <<1, 2, 3, 5, 8, 13>>

\* A schedule of seven entries.
timeoutsLong == <<1, 1, 2, 3, 5, 8, 13>>

\* The backoff schedule of R.Response, in seconds.
timeouts == <<1, 1, 2, 3, 5, 8>>

APIPATH == <<"api", "v3">>

\* The endpoint the session was created with.
Endpoint == "https://drp:8092"

\* A path segment url.ParseRequestURI rejects (it holds a control character).
BadSeg == "\\x7f"

\* A method http.NewRequestWithContext rejects (it is no valid token).
BadMethod == "BAD METHOD"

\* ------------------------------------------------------------ option values

None == <<>>
Some(x) == <<x>>

\* ---------------------------------------------------------- models.Error
\* A *models.Error is modelled by its Messages, Code, Model and Key.

NewError == [Messages |-> <<>>, Code |-> 0, Model |-> "", Key |-> ""]

Errorf(e, msg) == [e EXCEPT !.Messages = Append(@, msg)]

\* A Go error value is None (nil) or Some(message).
AddError(e, src) == IF src = None THEN e ELSE Errorf(e, src[1])

ContainsError(e) == Len(e.Messages) > 0

\* What a call returns as its error: nil, or the messages and code it carries.
NilErr == [isnil |-> TRUE, msgs |-> <<>>, code |-> 0]
ErrOf(e) == [isnil |-> FALSE, msgs |-> e.Messages, code |-> e.Code]
PlainErr(msg) == [isnil |-> FALSE, msgs |-> <<msg>>, code |-> 0]

HasError(e) == IF ContainsError(e) THEN ErrOf(e) ELSE NilErr

Contains(seq, x) == \E i \in 1..Len(seq) : seq[i] = x

\* ------------------------------------------------------------ descriptor R

HeaderNames == {"Content-Type", "Accept", "Cache-Control", "Authorization",
                "X-Log-Request", "X-Log-Token", "X-Test", "If-None-Match"}

NoHeaders == [h \in HeaderNames |-> <<>>]

\* http.Header.Add and http.Header.Set
HeaderAdd(h, k, v) == [h EXCEPT ![k] = Append(@, v)]
HeaderSet(h, k, v) == [h EXCEPT ![k] = <<v>>]
HeaderGet(h, k) == IF h[k] = <<>> THEN "" ELSE h[k][1]

\* A faulty Set that appends the value to those the key has, as url.Values.Add.
ValuesAdd(vals, k, v) ==
  [x \in (DOMAIN vals) \cup {k} |->
     IF x # k THEN vals[x]
     ELSE IF k \in DOMAIN vals THEN Append(vals[k], v) ELSE <<v>>]

\* url.Values.Set: the key has the one value v afterwards, whatever it had.
ValuesSet(vals, k, v) == [x \in (DOMAIN vals) \cup {k} |-> IF x = k THEN <<v>> ELSE vals[x]]

NoValues == [x \in {} |-> <<>>]

\* Client.Req: a fresh descriptor of the session.
Req(lvl, tok, up) ==
  [ method     |-> "GET",
    uri        |-> None,
    header     |-> NoHeaders,
    body       |-> "nil",
    err        |-> NewError,
    paranoid   |-> FALSE,
    noRetry    |-> FALSE,
    traceLvl   |-> lvl,
    traceToken |-> tok,
    proxy      |-> up,
    params     |-> NoValues,
    ctx        |-> "background",
    eTag       |-> "" ]

Context(r, c) == [r EXCEPT !.ctx = c, !.noRetry = TRUE]

Meth(r, v) == [r EXCEPT !.method = v]

Get(r) == Meth(r, "GET")
Del(r) == Meth(r, "DELETE")
HeadReq(r) == Meth(r, "HEAD")

FailFast(r) == [r EXCEPT !.noRetry = TRUE]

ParanoidPatch(r) == [r EXCEPT !.paranoid = TRUE]

\* path.Join drops the empty elements.
PathJoin(args) == SelectSeq(args, LAMBDA s : s # "")

\* url.ParseRequestURI fails on a path url cannot parse.
Parses(segs) == ~ Contains(segs, BadSeg)

\* Client.realEndpoint with no local proxy in use.
realEndpoint == Endpoint

\* A UrlForProxy that puts the proxy segment after the API prefix.
UrlForProxyAfter(proxy, args) ==
  LET segs == APIPATH \o (IF proxy = "" THEN <<>> ELSE <<proxy>>) \o PathJoin(args)
  IN  IF Parses(segs)
        THEN [ok |-> TRUE, url |-> [host |-> realEndpoint, path |-> segs, query |-> NoValues]]
        ELSE [ok |-> FALSE, url |-> [host |-> "", path |-> <<>>, query |-> NoValues]]

\* Client.UrlForProxy: the URL or the parse error.
UrlForProxy(proxy, args) ==
  LET segs == (IF proxy = "" THEN <<>> ELSE <<proxy>>) \o APIPATH \o PathJoin(args)
  IN  IF Parses(segs)
        THEN [ok |-> TRUE, url |-> [host |-> realEndpoint, path |-> segs, query |-> NoValues]]
        ELSE [ok |-> FALSE, url |-> [host |-> "", path |-> <<>>, query |-> NoValues]]

UrlFor(r, args) ==
  LET res == UrlForProxy(r.proxy, args)
  IN  IF ~ res.ok
        THEN [r EXCEPT !.err = AddError(@, Some("parse: invalid URL"))]
        ELSE [r EXCEPT !.uri = Some(res.url)]

\* A faulty Params that sets the complete leading pairs of an odd argument
\* list before it records the error.
ParamsLeadingPairs(r, args) ==
  LET RECURSIVE set(_, _)
      set(vals, i) == IF i > Len(args) THEN vals
                      ELSE set(ValuesSet(vals, args[i - 1], args[i]), i + 2)
      r1 == [r EXCEPT !.params = set(@, 2)]
  IN  IF Len(args) % 2 = 1
        THEN [r1 EXCEPT !.err = Errorf(@, "Params was not passed an even number of arguments")]
        ELSE r1

Params(r, args) ==
  IF Len(args) % 2 = 1
    THEN [r EXCEPT !.err = Errorf(@, "Params was not passed an even number of arguments")]
    ELSE LET RECURSIVE set(_, _)
             set(vals, i) == IF i > Len(args) THEN vals
                             ELSE set(ValuesSet(vals, args[i - 1], args[i]), i + 2)
         IN  [r EXCEPT !.params = set(@, 2)]

Headers(r, args) ==
  IF Len(args) % 2 = 1
    THEN [r EXCEPT !.err = Errorf(@, "WithHeaders was not passed an even number of arguments")]
    ELSE LET RECURSIVE add(_, _)
             add(h, i) == IF i > Len(args) THEN h
                          ELSE add(HeaderAdd(h, args[i - 1], args[i]), i + 2)
         IN  [r EXCEPT !.header = add(@, 2)]

\* The values R.Body is given: nil, an io.Reader that cannot seek, an
\* io.ReadSeeker, a []byte, a value json.Marshal accepts and one it rejects.
BodyArgs == {"nil", "stream", "seeker", "rawbytes", "obj", "badobj"}

Body(r, b) ==
  CASE b = "nil" -> Headers(r, <<"Content-Type", "application/json">>)
    [] b \in {"stream", "seeker"} ->
         [Headers(r, <<"Content-Type", "application/octet-stream">>) EXCEPT !.body = b]
    [] b = "rawbytes" ->
         [Headers(r, <<"Content-Type", "application/octet-stream">>) EXCEPT !.body = "bytes"]
    [] b = "badobj" ->
         [Headers(r, <<"Content-Type", "application/json">>)
            EXCEPT !.err = AddError(@, Some("json: unsupported type"))]
    [] OTHER ->
         [Headers(r, <<"Content-Type", "application/json">>) EXCEPT !.body = "bytes"]

Post(r, b) == Body(Meth(r, "POST"), b)
Put(r, b) == Body(Meth(r, "PUT"), b)

\* UrlForM: the entity's prefix and key are the first two path arguments.
UrlForM(r, m, rest) ==
  UrlFor([r EXCEPT !.err = [@ EXCEPT !.Model = m.prefix, !.Key = m.key]],
         <<m.prefix, m.key>> \o rest)

\* strings.ToLower and strings.Title on the tokens callers spell operators with.
ToLower(s) ==
  CASE s \in {"Eq", "EQ", "eq"} -> "eq"
    [] s \in {"Ne", "NE", "ne"} -> "ne"
    [] s \in {"Lt", "lt"} -> "lt"
    [] s \in {"Lte", "lte"} -> "lte"
    [] s \in {"Gt", "gt"} -> "gt"
    [] s \in {"Gte", "gte"} -> "gte"
    [] s \in {"In", "in"} -> "in"
    [] s \in {"Nin", "nin"} -> "nin"
    [] s \in {"Re", "re"} -> "re"
    [] s \in {"Between", "BETWEEN", "between"} -> "between"
    [] s \in {"Except", "except"} -> "except"
    [] s \in {"Bogus", "bogus"} -> "bogus"
    [] OTHER -> s

\* A faulty Title that leaves the token as it is.
TitleAsIs(s) == s

Title(s) ==
  CASE s = "eq" -> "Eq"
    [] s = "ne" -> "Ne"
    [] s = "lt" -> "Lt"
    [] s = "lte" -> "Lte"
    [] s = "gt" -> "Gt"
    [] s = "gte" -> "Gte"
    [] s = "in" -> "In"
    [] s = "nin" -> "Nin"
    [] s = "re" -> "Re"
    [] s = "between" -> "Between"
    [] s = "except" -> "Except"
    [] s = "bogus" -> "Bogus"
    [] OTHER -> s

\* A faulty test that finds no comma in any token.
HasCommaNever(s) == FALSE

\* strings.Contains(s, ",") on the value tokens.
HasComma(s) == s \in {"1,5", "a,b"}

\* The loop of R.Filter from argument i on, with the pairs compiled so far:
\* the compiled pairs, or the validation error.
RECURSIVE FilterCompile(_, _, _)
FilterCompile(filterArgs, i, finalParams) ==
  LET n == Len(filterArgs)
      filter == filterArgs[i]
  IN
  IF i > n THEN [ok |-> TRUE, params |-> finalParams, msg |-> ""]
  ELSE IF filter \in {"reverse", "decode"}
    THEN FilterCompile(filterArgs, i + 1, finalParams \o <<filter, "true">>)
  ELSE IF filter \in {"sort", "limit", "offset", "slim", "params"}
    THEN IF n - (i - 1) < 2
           THEN [ok |-> FALSE, params |-> <<>>,
                 msg |-> "Invalid Filter: requires exactly one parameter"]
           ELSE FilterCompile(filterArgs, i + 2, finalParams \o <<filter, filterArgs[i + 1]>>)
  ELSE IF n - (i - 1) < 2
    THEN [ok |-> FALSE, params |-> <<>>,
          msg |-> "Invalid Filter: requires an op and at least 1 parameter"]
  ELSE LET fop == Title(ToLower(filterArgs[i + 1]))
           j == i + 2
       IN  IF fop \in {"Eq", "Lt", "Lte", "Gt", "Gte", "Ne", "In", "Nin", "Re"}
             THEN IF n - (j - 1) < 1
                    THEN [ok |-> FALSE, params |-> <<>>,
                          msg |-> "Invalid Filter: op requires 1 parameter"]
                    ELSE FilterCompile(filterArgs, j + 1,
                           finalParams \o <<filter, fop \o "(" \o filterArgs[j] \o ")">>)
           ELSE IF fop \in {"Between", "Except"}
             THEN IF n - (j - 1) < 1 \/ (n - (j - 1) < 2 /\ ~ HasComma(filterArgs[j]))
                    THEN [ok |-> FALSE, params |-> <<>>,
                          msg |-> "Invalid Filter: op requires 1 or 2 parameters"]
                    ELSE IF ~ HasComma(filterArgs[j])
                      THEN FilterCompile(filterArgs, j + 2,
                             finalParams \o <<filter, fop \o "(" \o filterArgs[j] \o ","
                                                        \o filterArgs[j + 1] \o ")">>)
                      ELSE FilterCompile(filterArgs, j + 1,
                             finalParams \o <<filter, fop \o "(" \o filterArgs[j] \o ")">>)
           ELSE [ok |-> FALSE, params |-> <<>>, msg |-> "Invalid Filter: unknown op"]

\* A faulty Filter that sets what it compiled whether or not the arguments
\* were valid, and records nothing.
FilterUnchecked(r, prefix, filterArgs) ==
  Params(UrlFor(Get(r), <<prefix>>), FilterCompile(filterArgs, 1, <<>>).params)

Filter(r, prefix, filterArgs) ==
  LET r1 == UrlFor(Get(r), <<prefix>>)
      res == FilterCompile(filterArgs, 1, <<>>)
  IN  IF res.ok THEN Params(r1, res.params)
                ELSE [r1 EXCEPT !.err = Errorf(@, res.msg)]

\* PatchObj: the generated patch is a value json.Marshal accepts.
PatchObj(r, old, new) == Body(Meth(r, "PATCH"), "obj")

\* A PatchTo that does not compare the prefixes and keys.
PatchToUnchecked(r, old, new) == UrlForM(PatchObj(r, old, new), old, <<>>)

PatchTo(r, old, new) ==
  IF old.prefix # new.prefix \/ old.key # new.key
    THEN [r EXCEPT !.err = Errorf([@ EXCEPT !.Model = old.prefix, !.Key = old.key],
                                  "Cannot patch, or change keys")]
    ELSE UrlForM(PatchObj(r, old, new), old, <<>>)

\* base64.StdEncoding.EncodeToString on the credentials sessions are made with.
Base64(s) ==
  CASE s = "rocketskates:r0cketsk8ts" -> "cm9ja2V0c2thdGVzOnIwY2tldHNrOHRz"
    [] s = ":" -> "Og=="
    [] OTHER -> "base64(" \o s \o ")"

\* A faulty Authorize that sets the header whether or not the request has one.
AuthorizeAlways(h, tokA, tokB, user, pass) ==
  IF tokA # "" THEN HeaderSet(h, "Authorization", "Bearer " \o tokB)
               ELSE HeaderSet(h, "Authorization",
                              "Basic " \o Base64(user \o ":" \o pass))

\* Client.Authorize on the header map the request shares with the descriptor.
\* c.Token() is called twice: tokA is what the test sees, tokB what is sent.
Authorize(h, tokA, tokB, user, pass) ==
  IF HeaderGet(h, "Authorization") = ""
    THEN IF tokA # "" THEN HeaderSet(h, "Authorization", "Bearer " \o tokB)
                      ELSE HeaderSet(h, "Authorization",
                                     "Basic " \o Base64(user \o ":" \o pass))
    ELSE h

\* The destinations R.Do is given: nil, an io.Writer, an io.WriteSeeker, an
\* *os.File and a pointer to a value to decode into.
DoArgs == {"nil", "writer", "writeseeker", "file", "value"}

\* val.(io.Writer) and val.(io.WriteSeeker): an *os.File is both.
IsWriter(val) == val \in {"writer", "writeseeker", "file"}

\* A type assertion no destination passes.
IsWriteSeekerNever(val) == FALSE

IsWriteSeeker(val) == val \in {"writeseeker", "file"}

\* The header additions R.Do makes before it calls Response.
DoHeaders(r, val) ==
  LET r1 == Headers(r, <<"Accept", "application/json">>)
  IN  IF IsWriter(val)
        THEN Headers(r1, <<"Accept", "application/octet-stream">>)
        ELSE r1

\* What the server may answer to one attempt.
Responses ==
  { [status |-> 200, ctype |-> "application/json", body |-> "good",  etag |-> "e1"],
    [status |-> 200, ctype |-> "application/json", body |-> "bad",   etag |-> ""],
    [status |-> 200, ctype |-> "application/json", body |-> "empty", etag |-> ""],
    [status |-> 200, ctype |-> "text/plain",       body |-> "good",  etag |-> "e1"],
    [status |-> 304, ctype |-> "",                 body |-> "empty", etag |-> "e1"],
    [status |-> 404, ctype |-> "application/json", body |-> "good",  etag |-> ""],
    [status |-> 500, ctype |-> "text/plain",       body |-> "bad",   etag |-> "e2"] }

\* The same, with the statuses at and just above the bound of success.
AllResponses ==
  Responses \cup
  { [status |-> 300, ctype |-> "application/json", body |-> "good",  etag |-> ""],
    [status |-> 307, ctype |-> "",                 body |-> "empty", etag |-> ""],
    [status |-> 200, ctype |-> "application/json; charset=utf-8", body |-> "good", etag |-> ""],
    [status |-> 200, ctype |-> "text/plain",       body |-> "empty", etag |-> ""] }

\* ------------------------------------------------------------------- state

VARIABLES
  \* the session (Client)
  closed,        \* Client.closed
  closerOpen,    \* Client.closer has not been closed
  info,          \* Client.info: 0 is nil, n > 0 the n-th allocated models.Info
  infoPop,       \* the allocated models.Info a fetch has completed into without error
  nextObj,       \* the next models.Info to allocate
  rtt,           \* Client.RoundTripTimeout
  token,         \* Client.token.Token
  closePc,       \* position of the thread calling Client.Close
  \* each caller thread
  pc,            \* position in its current call
  calls,         \* calls it has begun
  steps,         \* builder steps of the current descriptor
  op,            \* the call: "Response", "Do" or "Info"
  r,             \* the descriptor R of the current call
  dest,          \* the val given to Do
  destObj,       \* the models.Info val points to, in Info
  early,         \* the c.info Info read when it evaluated its operands
  idx,           \* index into timeouts of the current loop iteration
  lastErr,       \* err of R.Response
  resp,          \* resp of R.Response
  bodyPos,       \* read offset of the request body
  ret,           \* what the call returned
  \* what happened during the current call
  net,           \* network attempts begun
  out,           \* outcome of each attempt: "err" or "resp"
  posAt,         \* body offset at which each attempt began
  sleeps,        \* backoff sleeps taken, in seconds
  sentClosed,    \* attempts begun when Close had returned
  afterClose,    \* the call began when Close had returned
  needClear,     \* an Info cached when an attempt failed is still cached
  seekFail,      \* a rewind of the body failed
  recErr,        \* the errors the builder steps had recorded when the call began
  forced,        \* FailFast or Context was among the builder steps
  \* the session's credentials and its background goroutine
  username,      \* Client.username
  password,      \* Client.password
  sess,          \* how the session was made: "token", "user" or "usertoken"
  bg,            \* position of the background goroutine
  idleOpen,      \* the transport still holds its idle connections
  ticks,         \* ticks of the refresh ticker taken
  newTok,        \* token.Token of the refresh loop's local token
  nextTok,       \* the next token the server issues
  tokAtTick,     \* the session token when the current tick was taken
  bgLog,         \* outcomes of the refresh calls of the current tick
  refused,       \* whether each of them was refused because the session is closed
  \* the two reads of the token in Authorize
  tok1,          \* what the first c.Token() returned
  given,         \* the token the session was last given, when made or by a refresh
  seen,          \* the tokens the session has been given since the call began
  \* the last builder step
  lastStep,      \* its name and arguments
  prevR,         \* the descriptor before it
  \* GetBlob, PatchToFull and patch generation
  xfer,          \* fi: the *os.File given to GetBlob, its size and offset; blob: the
                 \* locals of GetBlob and what it returned; full: the arguments of
                 \* PatchToFull and what it returned; gen: a generated patch, the
                 \* object it was applied to and the outcome
  \* the local proxy
  proxy          \* weAreTheProxy; flagVals: the values of it each thread may find;
                 \* localProxyMux: 0 when free, else its holder; env: the variable
                 \* RS_LOCAL_PROXY; sockets: the paths where a socket file is;
                 \* transport: Client.Transport of each thread's client; pc, arg,
                 \* ret: each thread's position in MakeProxy, its socketPath and
                 \* neverProxy, its result; loops: the proxy goroutines; never,
                 \* gen: neverProxy of each thread's client and which client of
                 \* the thread it is; url: the host of the URL a thread has built

sessVars == <<closed, closerOpen, info, infoPop, nextObj, rtt, token, closePc>>
callVars == <<pc, calls, steps, op, r, dest, destObj, early, idx, lastErr, resp, bodyPos, ret>>
histVars == <<net, out, posAt, sleeps, sentClosed, afterClose, needClear, seekFail,
              recErr, forced>>
authVars == <<username, password, sess, given, bg, idleOpen, ticks, newTok, nextTok, tokAtTick, bgLog,
              refused>>
stepVars == <<lastStep, prevR>>
moreVars == <<xfer, proxy>>
auxVars == <<authVars, stepVars, moreVars>>
vars == <<sessVars, callVars, histVars, auxVars, tok1, seen>>

\* What a call returned: the response, the error, the *models.Info of Info,
\* whether Do filled its destination and all that Do did with it.
NoRet == [returned |-> FALSE, resp |-> None, err |-> NilErr, val |-> 0, filled |-> FALSE,
          did |-> {}]
Ret(rs, e, v) == [returned |-> TRUE, resp |-> rs, err |-> e, val |-> v, filled |-> FALSE,
                  did |-> {}]

\* Where a caller continues when R.Do or R.Response returns to it.
AfterReturn(o) ==
  CASE o = "Info" -> "inforet"
    [] o = "GetBlob" -> "blobret"
    [] o = "PatchToFull" -> "fullret"
    [] OTHER -> "done"

\* A call of Close has returned (a second call, which panics, follows one).
CloseReturned == closePc \in {"done", "panic"}

\* The tokens the server issues.
TokName(n) == "t" \o ToString(n)

NoStep == [name |-> "", args |-> <<>>]

\* TokenSessionProxy(endpoint, "t0", proxy): the session holds the token it
\* was given and a goroutine waits for the close signal.
TokenSessionProxy ==
  /\ sess = "token"
  /\ username = ""
  /\ password = ""
  /\ token = "t0"
  /\ nextTok = 1
  /\ bg = "wait"

\* UserSessionTokenProxyContext after its token fetch has succeeded: with
\* usetoken the issued token is kept and the refresh loop started.
UserSessionTokenProxyContext(usetoken) ==
  /\ sess = IF usetoken THEN "usertoken" ELSE "user"
  /\ username = "rocketskates"
  /\ password = "r0cketsk8ts"
  /\ token = IF usetoken THEN TokName(1) ELSE ""
  /\ nextTok = 2
  /\ bg = IF usetoken THEN "select" ELSE "none"

\* The socket paths MakeProxy is given.
SocketPaths == {"/a", "/b"}

NoGen == [stage |-> "none", old |-> None, new |-> None, paranoid |-> FALSE, patch |-> <<>>,
          target |-> None, out |-> None]

\* No round trip whose context is followed yet.
NoCtx == [st |-> "idle", op |-> "none", d |-> Req("", "", ""), deferred |-> FALSE,
          tries |-> 0, failed |-> FALSE, log |-> <<>>]

NoProxyArg == [socketPath |-> "", neverProxy |-> FALSE]

\* No file, no GetBlob and no PatchToFull yet.
NoFile == [size |-> 0, pos |-> 0]
NoBlob == [stage |-> "none", isFile |-> FALSE, size0 |-> 0, startSz |-> 0, regen |-> "none",
           shasum |-> "", err |-> NilErr, truncated |-> FALSE]
NoFull == [stage |-> "none", old |-> None, new |-> None, paranoid |-> FALSE, res |-> "",
           err |-> NilErr]

\* The state of a session and its callers after construction, whatever the
\* constructor.
InitCommon ==
  /\ closed = FALSE
  /\ closerOpen = TRUE
  /\ info = 0
  /\ infoPop = {}
  /\ nextObj = 1
  /\ rtt \in {0, 30}
  /\ closePc = "idle"
  /\ idleOpen = TRUE
  /\ ticks = 0
  /\ newTok = ""
  /\ tokAtTick = ""
  /\ bgLog = <<>>
  /\ refused = <<>>
  /\ tok1 = [p \in Procs |-> ""]
  /\ given = token
  /\ seen = [p \in Procs |-> {}]
  /\ lastStep = [p \in Procs |-> NoStep]
  /\ prevR = [p \in Procs |-> Req("", "", "")]
  /\ xfer = [fi |-> [p \in Procs |-> NoFile], blob |-> [p \in Procs |-> NoBlob],
             full |-> [p \in Procs |-> NoFull], gen |-> NoGen,
             ctx |-> [p \in Procs |-> NoCtx],
             lk |-> [mux |-> 0, iMux |-> 0, todo |-> [p \in Procs |-> <<>>]]]
  /\ proxy = [weAreTheProxy |-> FALSE, flagVals |-> [p \in Procs |-> {FALSE}],
              localProxyMux |-> 0, env |-> "", sockets |-> {},
              transport |-> [p \in Procs |-> "direct"],
              pc |-> [p \in Procs |-> "idle"], arg |-> [p \in Procs |-> NoProxyArg],
              ret |-> [p \in Procs |-> ""], loops |-> <<>>,
              never |-> [p \in Procs |-> FALSE], gen |-> [p \in Procs |-> 1],
              url |-> [p \in Procs |-> ""]]
  /\ pc = [p \in Procs |-> "idle"]
  /\ calls = [p \in Procs |-> 0]
  /\ steps = [p \in Procs |-> 0]
  /\ op = [p \in Procs |-> "none"]
  /\ r = [p \in Procs |-> Req("", "", "")]
  /\ dest = [p \in Procs |-> "nil"]
  /\ destObj = [p \in Procs |-> 0]
  /\ early = [p \in Procs |-> 0]
  /\ idx = [p \in Procs |-> 1]
  /\ lastErr = [p \in Procs |-> None]
  /\ resp = [p \in Procs |-> None]
  /\ bodyPos = [p \in Procs |-> 0]
  /\ ret = [p \in Procs |-> NoRet]
  /\ net = [p \in Procs |-> 0]
  /\ out = [p \in Procs |-> <<>>]
  /\ posAt = [p \in Procs |-> <<>>]
  /\ sleeps = [p \in Procs |-> <<>>]
  /\ sentClosed = [p \in Procs |-> {}]
  /\ afterClose = [p \in Procs |-> FALSE]
  /\ needClear = [p \in Procs |-> FALSE]
  /\ seekFail = [p \in Procs |-> FALSE]
  /\ recErr = [p \in Procs |-> <<>>]
  /\ forced = [p \in Procs |-> FALSE]

\* A token session.
Init == TokenSessionProxy /\ InitCommon

\* A session of any kind, with a RoundTripTimeout.
InitAuth ==
  /\ TokenSessionProxy \/ \E usetoken \in BOOLEAN : UserSessionTokenProxyContext(usetoken)
  /\ InitCommon
  /\ rtt > 0

\* A caller thread begins a new call with nothing left of the previous one.
Fresh(p, o, d) ==
  /\ steps' = [steps EXCEPT ![p] = 0]
  /\ op' = [op EXCEPT ![p] = o]
  /\ dest' = [dest EXCEPT ![p] = d]
  /\ idx' = [idx EXCEPT ![p] = 1]
  /\ lastErr' = [lastErr EXCEPT ![p] = None]
  /\ resp' = [resp EXCEPT ![p] = None]
  /\ bodyPos' = [bodyPos EXCEPT ![p] = 0]
  /\ ret' = [ret EXCEPT ![p] = NoRet]
  /\ net' = [net EXCEPT ![p] = 0]
  /\ out' = [out EXCEPT ![p] = <<>>]
  /\ posAt' = [posAt EXCEPT ![p] = <<>>]
  /\ sleeps' = [sleeps EXCEPT ![p] = <<>>]
  /\ sentClosed' = [sentClosed EXCEPT ![p] = {}]
  /\ needClear' = [needClear EXCEPT ![p] = FALSE]
  /\ seekFail' = [seekFail EXCEPT ![p] = FALSE]
  /\ recErr' = [recErr EXCEPT ![p] = <<>>]
  /\ forced' = [forced EXCEPT ![p] = FALSE]
  /\ seen' = [seen EXCEPT ![p] = {given}]

Begin(p, o, d) ==
  /\ pc[p] \in {"idle", "done"}
  /\ calls[p] < MaxCalls
  /\ calls' = [calls EXCEPT ![p] = @ + 1]
  /\ Fresh(p, o, d)

\* ---------------------------------------------------------- builder steps

\* c.Req() on a session whose urlProxy is up: the caller starts a descriptor.
StartReqOf(p, up) ==
  /\ Begin(p, "none", "nil")
  /\ r' = [r EXCEPT ![p] = Req("", "", up)]
  /\ pc' = [pc EXCEPT ![p] = "build"]
  /\ afterClose' = [afterClose EXCEPT ![p] = FALSE]
  /\ UNCHANGED <<sessVars, destObj, early>>
  /\ lastStep' = [lastStep EXCEPT ![p] = NoStep]
  /\ prevR' = [prevR EXCEPT ![p] = Req("", "", up)]
  /\ UNCHANGED <<authVars, moreVars, tok1>>

\* c.Req() on a session that chains through no other endpoint.
StartReq(p) == StartReqOf(p, "")

\* c.UrlProxy("far").Req(): the descriptor of a session that chains.
StartReqChained(p) == StartReqOf(p, "far")

\* One builder step that turns the descriptor into nr.
Build(p, nr) ==
  /\ pc[p] = "build"
  /\ steps[p] < MaxSteps
  /\ steps' = [steps EXCEPT ![p] = @ + 1]
  /\ r' = [r EXCEPT ![p] = nr]
  /\ UNCHANGED <<sessVars, pc, calls, op, dest, destObj, early, idx,
                 lastErr, resp, bodyPos, ret, net, out, posAt, sleeps, sentClosed,
                 afterClose, needClear, seekFail, recErr>>
  /\ UNCHANGED <<auxVars, tok1, seen>>

StepParams(p) ==
  /\ \E args \in {<<"a", "1">>, <<"a">>} : Build(p, Params(r[p], args))
  /\ UNCHANGED forced

StepHeaders(p) ==
  /\ \E args \in {<<"X-Test", "1">>, <<"X-Test">>} : Build(p, Headers(r[p], args))
  /\ UNCHANGED forced

StepBody(p) ==
  /\ \E b \in {"stream", "seeker", "obj", "badobj"} : Build(p, Body(r[p], b))
  /\ UNCHANGED forced

StepUrlFor(p) ==
  /\ \E args \in {<<"info">>, <<BadSeg>>} : Build(p, UrlFor(r[p], args))
  /\ UNCHANGED forced

StepMeth(p) ==
  /\ \E m \in {"HEAD", BadMethod} : Build(p, Meth(r[p], m))
  /\ UNCHANGED forced

StepFilter(p) ==
  /\ \E args \in {<<"sort", "Name", "Stage", "eq", "complete">>, <<"Stage", "Bogus", "x">>} :
    Build(p, Filter(r[p], "machines", args))
  /\ UNCHANGED forced

StepPatchTo(p) ==
  /\ \E new \in {[prefix |-> "machines", key |-> "m1", val |-> "b"],
              [prefix |-> "machines", key |-> "m2", val |-> "a"]} :
    Build(p, PatchTo(r[p], [prefix |-> "machines", key |-> "m1", val |-> "a"], new))
  /\ UNCHANGED forced

StepFailFast(p) ==
  /\ Build(p, FailFast(r[p]))
  /\ forced' = [forced EXCEPT ![p] = TRUE]

StepContext(p) ==
  /\ \E c \in {"background", "caller"} : Build(p, Context(r[p], c))
  /\ forced' = [forced EXCEPT ![p] = TRUE]

\* One call of the chain c.Req().<step>(...)...: the descriptor becomes nr;
\* the step and the descriptor it found are remembered.
Chain(p, name, args, nr) ==
  /\ pc[p] = "build"
  /\ steps[p] < MaxSteps
  /\ steps' = [steps EXCEPT ![p] = @ + 1]
  /\ r' = [r EXCEPT ![p] = nr]
  /\ lastStep' = [lastStep EXCEPT ![p] = [name |-> name, args |-> args]]
  /\ prevR' = [prevR EXCEPT ![p] = r[p]]
  /\ UNCHANGED <<sessVars, pc, calls, op, dest, destObj, early, idx,
                 lastErr, resp, bodyPos, ret, net, out, posAt, sleeps, sentClosed,
                 afterClose, needClear, seekFail, recErr, forced>>
  /\ UNCHANGED <<authVars, moreVars, tok1, seen>>

\* The argument lists callers give Params, Headers and Filter.
ParamsArgs ==
  { <<"a", "1">>, <<"a", "1", "a", "2">>, <<"a", "2", "b", "1">>,
    <<"a">>, <<"a", "1", "b">> }

HeadersArgs == { <<"X-Test", "1">>, <<"X-Test">>, <<"X-Test", "1", "Accept">> }

FilterArgs ==
  { <<"sort", "Name", "limit", "5", "Stage", "Eq", "complete">>,
    <<"reverse", "Stage", "eq", "complete">>,
    <<"decode", "Stage", "NE", "x">>,
    <<"a", "Eq", "1", "a", "Ne", "2">>,
    <<"Stage", "Between", "1", "5">>,
    <<"Stage", "Between", "1", "5", "limit", "5">>,
    <<"Stage", "between", "1,5", "sort", "Name">>,
    <<"Stage", "Except", "a,b", "reverse">>,
    <<"Stage", "Between", "1", "sort">>,
    <<"Stage", "Bogus", "x">>,
    <<"sort", "Name", "limit">>,
    <<"sort", "Name", "Stage">>,
    <<"sort", "Name", "Stage", "Eq">>,
    <<"a", "Eq", "1", "Stage", "Between">>,
    <<"Stage", "except", "1">> }

\* A models.Model a caller holds.
Machine == [prefix |-> "machines", key |-> "m1", val |-> "a"]

ChainParams(p) ==
  \E args \in ParamsArgs : Chain(p, "Params", args, Params(r[p], args))

ChainHeaders(p) ==
  \E args \in HeadersArgs : Chain(p, "Headers", args, Headers(r[p], args))

ChainBody(p) ==
  \E b \in {"seeker", "obj", "badobj"} : Chain(p, "Body", <<b>>, Body(r[p], b))

ChainUrlFor(p) ==
  \E args \in {<<"info">>, <<BadSeg>>} : Chain(p, "UrlFor", args, UrlFor(r[p], args))

\* An entity that has no key yet.
Unkeyed == [prefix |-> "machines", key |-> "", val |-> "a"]

ChainUrlForM(p) ==
  \E m \in {Machine, Unkeyed}, rest \in {<<>>, <<"params">>} :
    Chain(p, "UrlForM", <<m.prefix, m.key>> \o rest, UrlForM(r[p], m, rest))

ChainMeth(p) == Chain(p, "Meth", <<"HEAD">>, Meth(r[p], "HEAD"))

ChainFilter(p) ==
  \E args \in FilterArgs : Chain(p, "Filter", args, Filter(r[p], "machines", args))

ChainPatchObj(p) ==
  Chain(p, "PatchObj", <<>>, PatchObj(r[p], Machine, [Machine EXCEPT !.val = "b"]))

\* ------------------------------------------------------- R.Response, R.Do

\* r.Response() on the descriptor as built.
CallResponse(p) ==
  /\ pc[p] = "build"
  /\ op' = [op EXCEPT ![p] = "Response"]
  /\ afterClose' = [afterClose EXCEPT ![p] = CloseReturned]
  /\ pc' = [pc EXCEPT ![p] = "preflight"]
  /\ steps' = [steps EXCEPT ![p] = 0]
  /\ UNCHANGED <<sessVars, calls, r, dest, destObj, early, idx, lastErr, resp,
                 bodyPos, ret, net, out, posAt, sleeps, sentClosed, needClear, seekFail, forced>>
  /\ recErr' = [recErr EXCEPT ![p] = r[p].err.Messages]
  /\ lastStep' = [lastStep EXCEPT ![p] = NoStep]
  /\ prevR' = [prevR EXCEPT ![p] = Req("", "", "")]
  /\ UNCHANGED <<authVars, moreVars, tok1, seen>>

\* r.Do(val): the Accept headers, then Response.
CallDo(p) ==
  /\ pc[p] = "build"
  /\ \E val \in {"nil", "writer", "value"} :
       /\ dest' = [dest EXCEPT ![p] = val]
       /\ r' = [r EXCEPT ![p] = DoHeaders(@, val)]
  /\ op' = [op EXCEPT ![p] = "Do"]
  /\ afterClose' = [afterClose EXCEPT ![p] = CloseReturned]
  /\ pc' = [pc EXCEPT ![p] = "preflight"]
  /\ steps' = [steps EXCEPT ![p] = 0]
  /\ UNCHANGED <<sessVars, calls, destObj, early, idx, lastErr, resp,
                 bodyPos, ret, net, out, posAt, sleeps, sentClosed, needClear, seekFail, forced>>
  /\ recErr' = [recErr EXCEPT ![p] = r[p].err.Messages]
  /\ lastStep' = [lastStep EXCEPT ![p] = NoStep]
  /\ prevR' = [prevR EXCEPT ![p] = Req("", "", "")]
  /\ UNCHANGED <<authVars, moreVars, tok1, seen>>

\* Response returns (rs, e) to its caller: to the caller thread when the call
\* is Response, to Do (which returns the error as it is) or through Do to
\* Info otherwise.
Return(p, nr, rs, e) ==
  /\ r' = [r EXCEPT ![p] = nr]
  /\ ret' = [ret EXCEPT ![p] = Ret(rs, e, 0)]
  /\ pc' = [pc EXCEPT ![p] = AfterReturn(op[p])]

\* A faulty Deadline that derives the deadline but leaves retry enabled.
DeadlineKeepRetry(d, timeout) ==
  IF timeout > 0 /\ d.ctx = "background"
    THEN [d EXCEPT !.ctx = "deadline"]
    ELSE d

\* The descriptor after the steps of Response that precede the closed check:
\* a derived deadline forces no-retry, the query is encoded into the URL.
Deadline(d, timeout) ==
  IF timeout > 0 /\ d.ctx = "background"
    THEN [d EXCEPT !.noRetry = TRUE, !.ctx = "deadline"]
    ELSE d

EncodeQuery(d) == [d EXCEPT !.uri = Some([d.uri[1] EXCEPT !.query = d.params])]

\* The headers Response adds once the descriptor is known to be sound.
ResponseHeaders(d) ==
  LET d1 == Headers(d, <<"Cache-Control", "no-store">>)
  IN  IF d.traceLvl # ""
        THEN Headers(Headers(d1, <<"X-Log-Request", d.traceLvl>>),
                     <<"X-Log-Token", d.traceToken>>)
        ELSE d1

\* A faulty closed check that never finds the session closed.
SessionClosedIgnored == FALSE

\* Whether Response, having locked the mutex, finds the session closed.
SessionClosed == closed

\* A faulty check that lets a descriptor with a recorded error through.
ErrRecordedIgnored(d) == FALSE

\* Whether Response finds a validation error recorded on the descriptor.
ErrRecorded(d) == ContainsError(d.err)

\* Response from its entry to the first iteration of the retry loop.
Preflight(p) ==
  /\ pc[p] = "preflight"
  /\ IF r[p].uri = None
       THEN Return(p, [r[p] EXCEPT !.err = Errorf(@, "No URL to talk to")],
                   None, ErrOf(Errorf(r[p].err, "No URL to talk to")))
       ELSE LET d == EncodeQuery(Deadline(r[p], rtt))
            IN  IF SessionClosed
                  THEN Return(p, [d EXCEPT !.err = Errorf(@, "Connection Closed")],
                              None, ErrOf(Errorf(d.err, "Connection Closed")))
                  ELSE IF ErrRecorded(d)
                         THEN Return(p, d, None, ErrOf(d.err))
                         ELSE /\ r' = [r EXCEPT ![p] = ResponseHeaders(d)]
                              /\ pc' = [pc EXCEPT ![p] = "send"]
                              /\ UNCHANGED ret
  /\ UNCHANGED <<sessVars, histVars, calls, steps, op, dest, destObj, early, idx,
                 lastErr, resp, bodyPos>>
  /\ UNCHANGED <<auxVars, tok1, seen>>

\* The request goes on the network with the headers h, which it shares with
\* the descriptor.
Transmit(p, h) ==
  /\ r' = [r EXCEPT ![p].header = h]
  /\ net' = [net EXCEPT ![p] = @ + 1]
  /\ posAt' = [posAt EXCEPT ![p] = Append(@, bodyPos[p])]
  /\ sentClosed' = [sentClosed EXCEPT ![p] =
                      IF CloseReturned THEN @ \cup {net[p] + 1} ELSE @]
  /\ pc' = [pc EXCEPT ![p] = "wire"]

\* Only the refresh loop of a user session writes the token: in any other
\* session the two c.Token() of Authorize return the same.
TokenMayChange == sess = "usertoken"

\* One iteration up to the moment the request goes on the network: the
\* request is built, authorized and handed to the HTTP client.
Send(p) ==
  /\ pc[p] = "send"
  /\ IF r[p].method = BadMethod
       THEN /\ Return(p, [r[p] EXCEPT !.err = AddError(@, Some("net/http: invalid method"))],
                      None, ErrOf(AddError(r[p].err, Some("net/http: invalid method"))))
            /\ UNCHANGED <<net, posAt, sentClosed>>
            /\ UNCHANGED tok1
       ELSE IF TokenMayChange /\ HeaderGet(r[p].header, "Authorization") = ""
         THEN /\ tok1' = [tok1 EXCEPT ![p] = token]
              /\ pc' = [pc EXCEPT ![p] = "auth"]
              /\ UNCHANGED <<r, ret, net, posAt, sentClosed>>
         ELSE /\ Transmit(p, Authorize(r[p].header, token, token, username, password))
              /\ UNCHANGED <<ret, tok1>>
  /\ UNCHANGED <<sessVars, calls, steps, op, dest, destObj, early, idx, lastErr, resp,
                 bodyPos, out, sleeps, afterClose, needClear, seekFail, recErr, forced>>
  /\ UNCHANGED <<auxVars, seen>>

\* Authorize's second c.Token() in a session whose token may change, and
\* r.c.Do(req).
AuthSet(p) ==
  /\ pc[p] = "auth"
  /\ Transmit(p, Authorize(r[p].header, tok1[p], token, username, password))
  /\ UNCHANGED <<sessVars, calls, steps, op, dest, destObj, early, idx, lastErr, resp,
                 bodyPos, out, sleeps, afterClose, needClear, seekFail, recErr, forced, ret>>
  /\ UNCHANGED <<auxVars, seen, tok1>>

\* A media type that keeps the parameters.
MediaTypeRaw(ct) == ct

\* mime.ParseMediaType on the Content-Type values the server answers with:
\* the type without its parameters, "" when there is none.
MediaType(ct) ==
  CASE ct = "application/json; charset=utf-8" -> "application/json"
    [] ct = "text/plain; charset=utf-8" -> "text/plain"
    [] OTHER -> ct

\* A status text that is empty for every code.
StatusTextNone(code) == ""

\* http.StatusText on the codes the server answers with.
StatusText(code) ==
  CASE code = 300 -> "Multiple Choices"
    [] code = 304 -> "Not Modified"
    [] code = 307 -> "Temporary Redirect"
    [] code = 404 -> "Not Found"
    [] code = 500 -> "Internal Server Error"
    [] OTHER -> ""

\* What Do makes of the response rs for the destination val: the descriptor
\* afterwards, the error Do returns and what Do did: "read" the body,
\* "copied" it into val, moved val to its end ("seekEnd"), "filled" val from
\* the body or from the headers.
DoDecode(d, rs, val) ==
  LET withCode == [d EXCEPT !.err = [Errorf(@, StatusText(rs.status)) EXCEPT !.Code = rs.status]]
      noDecoder == [d EXCEPT !.err = Errorf(Errorf(Errorf(@, "Cannot handle content-type"),
                                                   "Resp: dump"),
                                            "No decoder for content-type")]
      badBody == [d EXCEPT !.err = Errorf(@, "json: cannot decode")]
      tagged == [d EXCEPT !.eTag = rs.etag]
  IN
  IF rs.status >= 400
    THEN IF d.method = "HEAD"
           THEN [r |-> withCode, err |-> ErrOf(withCode.err), did |-> {}]
         ELSE IF rs.body = "good"
           THEN [r |-> d, err |-> [isnil |-> FALSE, msgs |-> <<"server error">>, code |-> rs.status],
                 did |-> {"read"}]
         ELSE LET raw == [d EXCEPT !.err = [Errorf(Errorf(@, "json: cannot decode"), "Raw response")
                                              EXCEPT !.Code = rs.status]]
              IN  [r |-> raw, err |-> ErrOf(raw.err), did |-> {"read"}]
  ELSE IF IsWriter(val) /\ rs.status = 304
    THEN [r |-> tagged, err |-> NilErr,
          did |-> IF IsWriteSeeker(val) THEN {"seekEnd"} ELSE {}]
  ELSE IF IsWriter(val) /\ rs.status < 300
    THEN [r |-> tagged, err |-> HasError(tagged.err), did |-> {"read", "copied"}]
  ELSE IF d.method = "HEAD"
    THEN IF rs.status <= 300 \/ rs.status = 304
           THEN [r |-> tagged, err |-> NilErr,
                 did |-> IF val = "value" THEN {"filled"} ELSE {}]
           ELSE LET e == [tagged EXCEPT !.err = [Errorf(@, StatusText(rs.status))
                                                   EXCEPT !.Code = rs.status]]
                IN  [r |-> e, err |-> ErrOf(e.err), did |-> {}]
  ELSE IF rs.status = 304
    THEN [r |-> tagged, err |-> NilErr, did |-> {}]
  ELSE IF MediaType(rs.ctype) # "application/json"
    THEN LET e == [noDecoder EXCEPT !.eTag = rs.etag]
         IN  [r |-> e, err |-> ErrOf(e.err), did |-> {"read"}]
  ELSE IF val # "nil" /\ rs.body # "empty"
    THEN IF val = "value" /\ rs.body = "good"
           THEN [r |-> tagged, err |-> HasError(tagged.err), did |-> {"read", "filled"}]
           ELSE LET e == [badBody EXCEPT !.eTag = rs.etag]
                IN  [r |-> e, err |-> ErrOf(e.err), did |-> {"read"}]
  ELSE [r |-> tagged, err |-> HasError(tagged.err), did |-> {}]

\* A faulty Response that records the ETag of a response below 400 only.
SetETagBelow400(d, rs) == IF rs.status < 400 THEN [d EXCEPT !.eTag = rs.etag] ELSE d

\* r.eTag = resp.Header.Get("ETag") at the end of Response.
SetETag(d, rs) == [d EXCEPT !.eTag = rs.etag]

\* Response after its loop, and Do after Response: the transport error e, or
\* the response rs with its ETag, which Do decodes into its destination.
LoopExit(p, e, rs) ==
  IF e # None
    THEN /\ Return(p, [r[p] EXCEPT !.err = AddError(@, e)], None, ErrOf(AddError(r[p].err, e)))
         /\ UNCHANGED infoPop
    ELSE LET d == SetETag(r[p], rs[1])
         IN  IF op[p] = "Response" \/ ContainsError(d.err)
               THEN /\ Return(p, d, rs, HasError(d.err))
                    /\ UNCHANGED infoPop
               ELSE LET res == DoDecode(d, rs[1], dest[p])
                    IN  /\ r' = [r EXCEPT ![p] = res.r]
                        /\ ret' = [ret EXCEPT ![p] =
                                     [Ret(rs, res.err, 0) EXCEPT !.filled = "filled" \in res.did,
                                                                 !.did = res.did]]
                        /\ pc' = [pc EXCEPT ![p] = AfterReturn(op[p])]
                        /\ infoPop' = IF op[p] = "Info" /\ res.err.isnil /\ destObj[p] # 0
                                        THEN infoPop \cup {destObj[p]} ELSE infoPop

\* A faulty loop that breaks only when no-retry is in force, so that it
\* retries after a response as after a transport error.
AfterAttemptNoBreak(d, failed) ==
  IF d.noRetry THEN "after"
  ELSE IF d.body = "nil" THEN "chk"
  ELSE "seek"

\* Where the loop goes after an attempt: out of it on a response or when
\* no-retry is in force, to the closed check when there is no body, to the
\* rewind otherwise.
AfterAttempt(d, failed) ==
  IF ~ failed \/ d.noRetry THEN "after"
  ELSE IF d.body = "nil" THEN "chk"
  ELSE "seek"

\* The attempt ends: with a transport error, or with a response.
RecvOf(p, answers) ==
  /\ pc[p] = "wire"
  /\ \E o \in {None} \cup {Some(x) : x \in answers} :
       LET e == IF o = None THEN Some("transport error") ELSE None
       IN  /\ resp' = [resp EXCEPT ![p] = o]
           /\ lastErr' = [lastErr EXCEPT ![p] = e]
           /\ out' = [out EXCEPT ![p] = Append(@, IF o = None THEN "err" ELSE "resp")]
           /\ needClear' = [needClear EXCEPT ![p] = @ \/ (o = None /\ info # 0)]
           /\ IF AfterAttempt(r[p], o = None) = "after"
                THEN LoopExit(p, e, o)
                ELSE /\ pc' = [pc EXCEPT ![p] = AfterAttempt(r[p], o = None)]
                     /\ UNCHANGED <<r, ret, infoPop>>
  /\ \E n \in bodyPos[p]..BodyLen :
       bodyPos' = [bodyPos EXCEPT ![p] = IF r[p].body = "nil" THEN @ ELSE n]
  /\ UNCHANGED <<closed, closerOpen, info, nextObj, rtt, token, closePc,
                 calls, steps, op, dest, destObj, early, idx,
                 net, posAt, sleeps, sentClosed, afterClose, seekFail, recErr, forced>>
  /\ UNCHANGED <<auxVars, tok1, seen>>

Recv(p) == RecvOf(p, Responses)

\* A faulty type assertion that takes every body for an io.ReadSeeker.
IsSeekerAnyBody(b) == TRUE

\* Whether the body can be asked to seek at all.
IsSeeker(b) == b \in {"seeker", "bytes"}

\* The rewind of the body before a retry. A bytes.Reader always rewinds; any
\* other io.ReadSeeker may fail to.
Seek(p) ==
  /\ pc[p] = "seek"
  /\ IF ~ IsSeeker(r[p].body)
       THEN /\ LoopExit(p, lastErr[p], resp[p])
            /\ UNCHANGED <<bodyPos, seekFail>>
       ELSE \E ok \in (IF r[p].body = "bytes" THEN {TRUE} ELSE BOOLEAN) :
              IF ok
                THEN /\ bodyPos' = [bodyPos EXCEPT ![p] = 0]
                     /\ pc' = [pc EXCEPT ![p] = "chk"]
                     /\ UNCHANGED <<seekFail, r, ret, infoPop>>
                ELSE /\ seekFail' = [seekFail EXCEPT ![p] = TRUE]
                     /\ LoopExit(p, lastErr[p], resp[p])
                     /\ UNCHANGED bodyPos
  /\ UNCHANGED <<closed, closerOpen, info, nextObj, rtt, token, closePc,
                 calls, steps, op, dest, destObj, early, idx, lastErr,
                 resp, net, out, posAt, sleeps, sentClosed, afterClose, needClear, recErr, forced>>
  /\ UNCHANGED <<auxVars, tok1, seen>>

\* The closed check between a failed attempt and its backoff sleep.
CheckClosed(p) ==
  /\ pc[p] = "chk"
  /\ IF SessionClosed
       THEN Return(p, [r[p] EXCEPT !.err = Errorf(@, "Connection Closed")],
                   None, ErrOf(Errorf(r[p].err, "Connection Closed")))
       ELSE /\ pc' = [pc EXCEPT ![p] = IF r[p].body = "nil" THEN "clear" ELSE "sleep"]
            /\ UNCHANGED <<r, ret>>
  /\ UNCHANGED <<sessVars, histVars, calls, steps, op, dest, destObj, early, idx,
                 lastErr, resp, bodyPos>>
  /\ UNCHANGED <<auxVars, tok1, seen>>

\* r.c.info = nil under iMux, in the retry of a request without a body.
ClearInfo(p) ==
  /\ pc[p] = "clear"
  /\ info' = 0
  /\ needClear' = [q \in Procs |-> FALSE]
  /\ pc' = [pc EXCEPT ![p] = "sleep"]
  /\ UNCHANGED <<closed, closerOpen, infoPop, nextObj, rtt, token, closePc,
                 calls, steps, op, r, dest, destObj, early, idx, lastErr, resp, bodyPos,
                 ret, net, out, posAt, sleeps, sentClosed, afterClose, seekFail, recErr, forced>>
  /\ UNCHANGED <<auxVars, tok1, seen>>

\* time.Sleep(waitFor) ends and the loop takes its next iteration, or is over.
Sleep(p) ==
  /\ pc[p] = "sleep"
  /\ sleeps' = [sleeps EXCEPT ![p] = Append(@, timeouts[idx[p]])]
  /\ IF idx[p] < Len(timeouts)
       THEN /\ idx' = [idx EXCEPT ![p] = @ + 1]
            /\ pc' = [pc EXCEPT ![p] = "send"]
            /\ UNCHANGED <<r, ret, infoPop>>
       ELSE /\ LoopExit(p, lastErr[p], resp[p])
            /\ UNCHANGED idx
  /\ UNCHANGED <<closed, closerOpen, info, nextObj, rtt, token, closePc,
                 calls, steps, op, dest, destObj, early, lastErr, resp,
                 bodyPos, net, out, posAt, sentClosed, afterClose, needClear, seekFail,
                 recErr, forced>>
  /\ UNCHANGED <<auxVars, tok1, seen>>

\* ------------------------------------------------------------ Client.Info

\* Info under iMux: the cache is hit, or a fresh models.Info is cached.
InfoEnter(p) ==
  /\ Begin(p, "Info", "value")
  /\ afterClose' = [afterClose EXCEPT ![p] = CloseReturned]
  /\ IF info # 0
       THEN /\ pc' = [pc EXCEPT ![p] = "infohit"]
            /\ UNCHANGED <<info, nextObj>>
       ELSE /\ info' = nextObj
            /\ nextObj' = nextObj + 1
            /\ pc' = [pc EXCEPT ![p] = "infoarg"]
  /\ UNCHANGED <<closed, closerOpen, infoPop, rtt, token, closePc, r, destObj, early>>
  /\ UNCHANGED <<auxVars, tok1>>

\* The cache was hit: Info returns c.info, read after iMux was released.
InfoHit(p) ==
  /\ pc[p] = "infohit"
  /\ ret' = [ret EXCEPT ![p] = Ret(None, NilErr, info)]
  /\ pc' = [pc EXCEPT ![p] = "done"]
  /\ UNCHANGED <<sessVars, histVars, calls, steps, op, r, dest, destObj, early, idx,
                 lastErr, resp, bodyPos>>
  /\ UNCHANGED <<auxVars, tok1, seen>>

\* The cache was missed: c.Req().UrlFor("info").Do(c.info), with c.info read
\* after iMux was released.
InfoArg(p) ==
  /\ pc[p] = "infoarg"
  /\ LET val == IF info = 0 THEN "nilptr" ELSE "value"
     IN  /\ dest' = [dest EXCEPT ![p] = val]
         /\ r' = [r EXCEPT ![p] = DoHeaders(UrlFor(Req("", "", ""), <<"info">>), val)]
  /\ destObj' = [destObj EXCEPT ![p] = info]
  /\ early' = [early EXCEPT ![p] = info]
  /\ pc' = [pc EXCEPT ![p] = "preflight"]
  /\ UNCHANGED <<sessVars, histVars, calls, steps, op, idx, lastErr, resp, bodyPos, ret>>
  /\ UNCHANGED <<auxVars, tok1, seen>>

\* Info returns c.info and the error of Do. Go leaves open whether the
\* operand c.info is read before or after the call, so it is either.
InfoRet(p) ==
  /\ pc[p] = "inforet"
  /\ \E v \in {early[p], info} : ret' = [ret EXCEPT ![p].val = v]
  /\ pc' = [pc EXCEPT ![p] = "done"]
  /\ UNCHANGED <<sessVars, histVars, calls, steps, op, r, dest, destObj, early, idx,
                 lastErr, resp, bodyPos>>
  /\ UNCHANGED <<auxVars, tok1, seen>>

\* ----------------------------------------------------------- Client.Close

\* A faulty close of the signal channel that a closed channel lets pass.
CloseChanIdempotent(open) == "flag"

\* close(c.closer): closing a closed channel panics.
CloseChan(open) == IF open THEN "flag" ELSE "panic"

\* Close is called and closes c.closer, or panics there.
CloseSignal ==
  /\ closePc \in {"idle", "done", "panic"}
  /\ closerOpen' = FALSE
  /\ closePc' = CloseChan(closerOpen)
  /\ UNCHANGED <<closed, info, infoPop, nextObj, rtt, token, callVars, histVars>>
  /\ UNCHANGED <<auxVars, tok1, seen>>

\* c.closed = true under mux
CloseFlag ==
  /\ closePc = "flag"
  /\ closed' = TRUE
  /\ closePc' = "info"
  /\ UNCHANGED <<closerOpen, info, infoPop, nextObj, rtt, token, callVars, histVars>>
  /\ UNCHANGED <<auxVars, tok1, seen>>

\* c.info = nil under iMux; Close returns.
CloseInfo ==
  /\ closePc = "info"
  /\ info' = 0
  /\ needClear' = [q \in Procs |-> FALSE]
  /\ closePc' = "done"
  /\ UNCHANGED <<closed, closerOpen, infoPop, nextObj, rtt, token, callVars,
                 net, out, posAt, sleeps, sentClosed, afterClose, seekFail, recErr, forced>>
  /\ UNCHANGED <<auxVars, tok1, seen>>

Close == CloseSignal \/ CloseFlag \/ CloseInfo

\* The steps of a thread that calls Close once.
CloseOnce == (closePc = "idle" /\ CloseSignal) \/ CloseFlag \/ CloseInfo

\* ------------------------------------------------------------ client calls

\* Client.DeleteBlob: c.Req().Del().UrlFor(at).Do(nil)
DeleteBlob(p) ==
  /\ Begin(p, "Do", "nil")
  /\ r' = [r EXCEPT ![p] = DoHeaders(UrlFor(Del(Req("", "", "")), <<"files", "x">>), "nil")]
  /\ afterClose' = [afterClose EXCEPT ![p] = CloseReturned]
  /\ pc' = [pc EXCEPT ![p] = "preflight"]
  /\ UNCHANGED <<sessVars, destObj, early>>
  /\ UNCHANGED <<auxVars, tok1>>

\* Client.PostBlob: c.Req().Post(blob).UrlFor(at).Do(&res)
PostBlob(p) ==
  /\ Begin(p, "Do", "value")
  /\ \E b \in {"stream", "seeker"} :
       r' = [r EXCEPT ![p] = DoHeaders(UrlFor(Post(Req("", "", ""), b), <<"files", "x">>), "value")]
  /\ afterClose' = [afterClose EXCEPT ![p] = CloseReturned]
  /\ pc' = [pc EXCEPT ![p] = "preflight"]
  /\ UNCHANGED <<sessVars, destObj, early>>
  /\ UNCHANGED <<auxVars, tok1>>

\* ------------------------------------------------- background goroutines

\* The goroutine of the session: the refresh loop or the closer-waiter.
Refresher == CHOOSE p \in Procs : \A q \in Procs : q <= p

\* c.Req().UrlFor("users", c.username, "token").Params("ttl", "600").Do(&tok)
ReauthReq ==
  DoHeaders(Params(UrlFor(Req("", "", ""), <<"users", username, "token">>),
                   <<"ttl", "600">>), "value")

\* c.Req().UrlFor("users", c.username, "token").
\*   Headers("Authorization", "Basic "+basicAuth).Do(&token)
TokenFetchReq ==
  DoHeaders(Headers(UrlFor(Req("", "", ""), <<"users", username, "token">>),
                    <<"Authorization", "Basic " \o Base64(username \o ":" \o password)>>),
            "value")

\* The refresh loop starts the round trip of descriptor d as call o.
BgCall(o, d) ==
  /\ Fresh(Refresher, o, "value")
  /\ r' = [r EXCEPT ![Refresher] = d]
  /\ pc' = [pc EXCEPT ![Refresher] = "preflight"]
  /\ afterClose' = [afterClose EXCEPT ![Refresher] = CloseReturned]
  /\ bg' = o

\* case <-ticker.C: a fresh local token, and c.reauth(token).
Tick ==
  /\ bg = "select"
  /\ ticks < MaxTicks
  /\ ticks' = ticks + 1
  /\ BgCall("reauth", ReauthReq)
  /\ newTok' = ""
  /\ tokAtTick' = token
  /\ bgLog' = <<>>
  /\ refused' = <<>>
  /\ UNCHANGED <<sessVars, calls, destObj, early, username, password, sess, given, idleOpen,
                 nextTok, tok1, stepVars, moreVars>>

\* A faulty refresh in which the fatal log returns to the loop, which goes
\* on to store the token.
AfterRefreshNoFatal(stage, failed) ==
  IF ~ failed THEN "store"
  ELSE IF stage = "reauth" THEN "fetch"
  ELSE "store"

\* Where the loop goes when a refresh call has returned: the full fetch
\* follows a failed reauth, c.Fatalf a failed fetch. Fatalf logs and ends the
\* process: every thread is at "exit" from then on.
AfterRefresh(stage, failed) ==
  IF ~ failed THEN "store"
  ELSE IF stage = "reauth" THEN "fetch"
  ELSE "fatal"

\* c.reauth or the full fetch has returned to the loop.
RefreshNext ==
  /\ bg \in {"reauth", "fetch"}
  /\ pc[Refresher] = "done"
  /\ LET res == ret[Refresher]
         nxt == AfterRefresh(bg, ~ res.err.isnil)
     IN  /\ bgLog' = Append(bgLog, IF res.err.isnil THEN "ok" ELSE "fail")
         /\ refused' = Append(refused, net[Refresher] = 0
                                         /\ Contains(res.err.msgs, "Connection Closed"))
         /\ newTok' = IF res.filled THEN TokName(nextTok) ELSE newTok
         /\ nextTok' = IF res.filled THEN nextTok + 1 ELSE nextTok
         /\ IF nxt = "fetch"
              THEN BgCall("fetch", TokenFetchReq)
              ELSE /\ Fresh(Refresher, "none", "nil")
                   /\ r' = [r EXCEPT ![Refresher] = Req("", "", "")]
                   /\ pc' = IF nxt = "fatal" THEN [q \in Procs |-> "exit"]
                                             ELSE [pc EXCEPT ![Refresher] = "idle"]
                   /\ afterClose' = [afterClose EXCEPT ![Refresher] = FALSE]
                   /\ bg' = nxt
         /\ closePc' = IF nxt = "fatal" THEN "exit" ELSE closePc
  /\ UNCHANGED <<closed, closerOpen, info, infoPop, nextObj, rtt, token,
                 calls, destObj, early, username, password, sess, given, idleOpen,
                 ticks, tokAtTick, tok1, stepVars, moreVars>>

\* A faulty store that leaves the session token as it was.
StoredStale(cur, new) == cur

\* c.token = token under mux.
Stored(cur, new) == new

StoreToken ==
  /\ bg = "store"
  /\ token' = Stored(token, newTok)
  /\ given' = newTok
  /\ seen' = [q \in Procs |-> seen[q] \cup {newTok}]
  /\ bg' = "select"
  /\ UNCHANGED <<closed, closerOpen, info, infoPop, nextObj, rtt, closePc, callVars,
                 histVars, username, password, sess, idleOpen, ticks, newTok, nextTok,
                 tokAtTick, bgLog, refused, tok1, stepVars, moreVars>>

\* The goroutine leaves with the transport's idle connections released.
BgReturn ==
  /\ ~ closerOpen
  /\ idleOpen' = FALSE
  /\ bg' = "stopped"
  /\ UNCHANGED <<sessVars, callVars, histVars, username, password, sess, given, ticks,
                 newTok,
                 nextTok, tokAtTick, bgLog, refused, tok1, seen, stepVars, moreVars>>

\* case <-c.closer of the refresh loop: ticker.Stop(), tr.CloseIdleConnections().
RefreshStop == bg = "select" /\ BgReturn

\* <-c.closer of the goroutine of a token session, and tr.CloseIdleConnections().
CloserWait == bg = "wait" /\ BgReturn

\* ------------------------------------------------------------ specifications

\* The steps of a round trip without a body and of Info once the call is
\* under way.
Engine(p) ==
  \/ Preflight(p) \/ Send(p) \/ Recv(p) \/ CheckClosed(p)
  \/ ClearInfo(p) \/ Sleep(p)
  \/ InfoHit(p) \/ InfoArg(p) \/ InfoRet(p)

\* One caller thread that builds descriptors step by step and executes them,
\* or asks for Info, while another thread may call Close.
Caller == CHOOSE p \in Procs : \A q \in Procs : p <= q

Next ==
  \/ StartReq(Caller) \/ StepParams(Caller) \/ StepHeaders(Caller) \/ StepBody(Caller)
  \/ StepUrlFor(Caller) \/ StepMeth(Caller) \/ StepFailFast(Caller)
  \/ StepContext(Caller) \/ StepFilter(Caller) \/ StepPatchTo(Caller)
  \/ CallResponse(Caller) \/ CallDo(Caller)
  \/ Preflight(Caller) \/ Send(Caller) \/ Recv(Caller) \/ Seek(Caller) \/ CheckClosed(Caller)
  \/ ClearInfo(Caller) \/ Sleep(Caller)
  \/ CloseOnce

Spec == Init /\ [][Next]_vars

\* One caller thread making client calls one after another, while another
\* thread may call Close.
NextSeq ==
  \/ InfoEnter(Caller) \/ DeleteBlob(Caller) \/ PostBlob(Caller)
  \/ Engine(Caller) \/ Seek(Caller)
  \/ CloseOnce

SpecSeq == Init /\ [][NextSeq]_vars

\* The same, where a round trip that can take a step takes one: every
\* attempt ends, every sleep ends and no lock is held for ever.
SpecSeqFair == SpecSeq /\ WF_vars(Engine(Caller) \/ Seek(Caller))

\* Several caller threads asking for Info or making a retrying round trip on
\* one session, while another thread may call Close.
NextConc ==
  \/ \E p \in Procs : calls[p] < ConcCalls /\ (InfoEnter(p) \/ DeleteBlob(p))
  \/ \E p \in Procs : Engine(p)
  \/ CloseOnce

SpecConc == Init /\ [][NextConc]_vars

\* A round trip of a thread, of one attempt, in a session of any kind.
RoundTripStep(p) == Preflight(p) \/ Send(p) \/ AuthSet(p) \/ Recv(p)

\* A session of any kind with its background goroutine, one caller thread
\* making round trips and threads that call Close, once or again.
NextAuth ==
  \/ calls[Caller] < ConcCalls /\ DeleteBlob(Caller)
  \/ RoundTripStep(Caller) \/ RoundTripStep(Refresher)
  \/ Tick \/ RefreshNext \/ StoreToken \/ RefreshStop \/ CloserWait
  \/ Close

SpecAuth == InitAuth /\ [][NextAuth]_vars

\* A user session that keeps its token fresh and has no RoundTripTimeout, so
\* that its round trips retry.
InitRetry ==
  /\ UserSessionTokenProxyContext(TRUE)
  /\ InitCommon
  /\ rtt = 0

\* A round trip of a thread with its retries.
RetryStep(p) == RoundTripStep(p) \/ CheckClosed(p) \/ ClearInfo(p) \/ Sleep(p)

\* One caller thread making retrying round trips while the refresh loop
\* fetches and stores new tokens; a request of the refresh loop is followed
\* until its first attempt has ended.
NextRetry ==
  \/ calls[Caller] < ConcCalls /\ DeleteBlob(Caller)
  \/ RetryStep(Caller) \/ RoundTripStep(Refresher)
  \/ Tick \/ RefreshNext \/ StoreToken

SpecRetry == InitRetry /\ [][NextRetry]_vars

\* A token session with a RoundTripTimeout.
InitBuild == Init /\ rtt > 0

\* One caller thread chains builder calls on a descriptor and executes it.
NextBuild ==
  \/ calls[Caller] < ConcCalls /\ StartReq(Caller)
  \/ calls[Caller] < ConcCalls /\ StartReqChained(Caller)
  \/ ChainParams(Caller) \/ ChainHeaders(Caller) \/ ChainBody(Caller)
  \/ ChainUrlFor(Caller) \/ ChainUrlForM(Caller) \/ ChainMeth(Caller)
  \/ ChainFilter(Caller) \/ ChainPatchObj(Caller)
  \/ CallResponse(Caller)
  \/ Preflight(Caller) \/ Send(Caller) \/ Recv(Caller)

SpecBuild == InitBuild /\ [][NextBuild]_vars

\* ------------------------------------------ the context of a round trip

\* A Response that defers the cancel whatever the context is.
CancelsAlways(before, after) == TRUE

\* Whether Response has derived a context with a deadline, and so deferred
\* its cancel.
Cancels(before, after) == before.ctx = "background" /\ after.ctx = "deadline"

\* A thread calls Response or Do on a descriptor, made with or without
\* Context and with or without a URL.
CtxCall(p) ==
  /\ xfer.ctx[p].st = "idle"
  /\ \E o \in {"Response", "Do"}, c \in {"none", "background", "caller"}, u \in BOOLEAN :
       LET d0 == IF c = "none" THEN Req("", "", "") ELSE Context(Req("", "", ""), c)
           d1 == IF u THEN UrlFor(d0, <<"info">>) ELSE d0
       IN  xfer' = [xfer EXCEPT !.ctx[p] = [NoCtx EXCEPT !.st = "entry", !.op = o, !.d = d1]]
  /\ UNCHANGED <<sessVars, callVars, histVars, authVars, stepVars, proxy, tok1, seen>>

\* Response up to its loop: without a URL it returns at once; otherwise it
\* derives the deadline and defers the cancel, and returns when the session
\* is closed or an error is recorded.
CtxEnter(p) ==
  /\ xfer.ctx[p].st = "entry"
  /\ LET c == xfer.ctx[p]
         d == Deadline(c.d, rtt)
     IN  IF c.d.uri = None
           THEN xfer' = [xfer EXCEPT !.ctx[p] = [c EXCEPT !.st = "return", !.failed = TRUE]]
           ELSE xfer' = [xfer EXCEPT !.ctx[p] =
                  [c EXCEPT !.d = d,
                            !.deferred = Cancels(c.d, d),
                            !.st = IF SessionClosed \/ ErrRecorded(d) THEN "return" ELSE "attempt",
                            !.failed = SessionClosed \/ ErrRecorded(d)]]
  /\ UNCHANGED <<sessVars, callVars, histVars, authVars, stepVars, proxy, tok1, seen>>

\* One attempt of the loop: a response or no-retry ends the loop, as does
\* the last of the timeouts.
CtxAttempt(p) ==
  /\ xfer.ctx[p].st = "attempt"
  /\ \E failed \in BOOLEAN :
       LET c == xfer.ctx[p]
           over == AfterAttempt(c.d, failed) = "after" \/ c.tries + 1 = Len(timeouts)
       IN  xfer' = [xfer EXCEPT !.ctx[p] =
             [c EXCEPT !.tries = @ + 1,
                       !.failed = failed,
                       !.st = IF over THEN "return" ELSE "attempt"]]
  /\ UNCHANGED <<sessVars, callVars, histVars, authVars, stepVars, proxy, tok1, seen>>

\* Response returns: the deferred cancel runs.
CtxReturn(p) ==
  /\ xfer.ctx[p].st = "return"
  /\ LET c == xfer.ctx[p]
     IN  xfer' = [xfer EXCEPT !.ctx[p] =
           [c EXCEPT !.log = IF c.deferred THEN Append(@, "cancel") ELSE @,
                     !.st = IF c.op = "Do" THEN "do" ELSE "done"]]
  /\ UNCHANGED <<sessVars, callVars, histVars, authVars, stepVars, proxy, tok1, seen>>

\* Do after Response: it returns the error, or goes through the response,
\* and in most of its branches reads the body.
CtxDo(p) ==
  /\ xfer.ctx[p].st = "do"
  /\ \E reads \in BOOLEAN :
       LET c == xfer.ctx[p]
       IN  xfer' = [xfer EXCEPT !.ctx[p] =
             [c EXCEPT !.log = IF ~ c.failed /\ reads THEN Append(@, "read") ELSE @,
                       !.st = "done"]]
  /\ UNCHANGED <<sessVars, callVars, histVars, authVars, stepVars, proxy, tok1, seen>>

\* Two threads, each with one round trip on the session.
NextCtx ==
  \E p \in {Caller, Refresher} :
    CtxCall(p) \/ CtxEnter(p) \/ CtxAttempt(p) \/ CtxReturn(p) \/ CtxDo(p)

SpecCtx == Init /\ [][NextCtx]_vars

\* ------------------------------------------------- the two mutexes

\* The failed attempts of a round trip that are followed.
MaxFails == 1

\* What a call does with the mutexes, in the order of the code: it locks
\* ("L") and unlocks ("U") the mutex of token and closed flag (mux) and that
\* of the cached Info (iMux), talks to the server ("io") and sleeps.
Locked == <<"L:mux", "U:mux">>
ILocked == <<"L:iMux", "U:iMux">>

\* Client.Req, and Client.Token, which Authorize calls twice.
ReqSteps == Locked
AuthorizeSteps == Locked \o Locked

\* A Close that clears the Info while it holds the mutex of the closed flag.
CloseStepsNested == <<"L:mux", "L:iMux", "U:iMux", "U:mux">>

\* Client.Close: closed is set under mux, then info cleared under iMux.
CloseSteps == Locked \o ILocked

\* A retry that sleeps with the Info mutex held.
RetryStepsHeld == Locked \o <<"L:iMux", "sleep", "U:iMux">>

\* What follows a failed attempt that is retried: the closed check under
\* mux, the Info cleared under iMux, the sleep.
RetrySteps == Locked \o ILocked \o <<"sleep">>

\* R.Response: the closed check under mux, which ends the call when the
\* session is closed; fails attempts that are retried and a last one.
ResponseSteps(isClosed, fails) ==
  LET RECURSIVE loop(_)
      loop(n) == AuthorizeSteps \o <<"io">> \o (IF n = 0 THEN <<>> ELSE RetrySteps \o loop(n - 1))
  IN  Locked \o (IF isClosed THEN <<>> ELSE loop(fails))

\* Client.Info: the cache is looked at under iMux; when it is empty the
\* call goes on to c.Req() and the round trip.
InfoSteps(cached, isClosed, fails) ==
  ILocked \o (IF cached THEN <<>> ELSE ReqSteps \o ResponseSteps(isClosed, fails))

\* One turn of the refresh loop: c.reauth, and the token stored under mux.
RefreshSteps(isClosed, fails) == ReqSteps \o ResponseSteps(isClosed, fails) \o Locked

\* The calls a thread can make.
Programs ==
  {CloseSteps}
    \cup {ReqSteps \o ResponseSteps(c, n) : c \in BOOLEAN, n \in 0..MaxFails}
    \cup {InfoSteps(h, c, n) : h \in BOOLEAN, c \in BOOLEAN, n \in 0..MaxFails}
    \cup {RefreshSteps(c, n) : c \in BOOLEAN, n \in 0..MaxFails}

\* A thread that has nothing left to do begins a call.
LkCall(p) ==
  /\ xfer.lk.todo[p] = <<>>
  /\ \E prog \in Programs : xfer' = [xfer EXCEPT !.lk.todo[p] = prog]
  /\ UNCHANGED <<sessVars, callVars, histVars, authVars, stepVars, proxy, tok1, seen>>

\* sync.Mutex.Lock: the thread goes on when the mutex is free.
LkLock(p) ==
  /\ xfer.lk.todo[p] # <<>>
  /\ LET s == Head(xfer.lk.todo[p])
     IN  \/ /\ s = "L:mux" /\ xfer.lk.mux = 0
            /\ xfer' = [xfer EXCEPT !.lk.mux = p, !.lk.todo[p] = Tail(@)]
         \/ /\ s = "L:iMux" /\ xfer.lk.iMux = 0
            /\ xfer' = [xfer EXCEPT !.lk.iMux = p, !.lk.todo[p] = Tail(@)]
  /\ UNCHANGED <<sessVars, callVars, histVars, authVars, stepVars, proxy, tok1, seen>>

\* sync.Mutex.Unlock
LkUnlock(p) ==
  /\ xfer.lk.todo[p] # <<>>
  /\ LET s == Head(xfer.lk.todo[p])
     IN  \/ /\ s = "U:mux"
            /\ xfer' = [xfer EXCEPT !.lk.mux = 0, !.lk.todo[p] = Tail(@)]
         \/ /\ s = "U:iMux"
            /\ xfer' = [xfer EXCEPT !.lk.iMux = 0, !.lk.todo[p] = Tail(@)]
  /\ UNCHANGED <<sessVars, callVars, histVars, authVars, stepVars, proxy, tok1, seen>>

\* An attempt on the network, or a sleep, comes to its end.
LkWait(p) ==
  /\ xfer.lk.todo[p] # <<>>
  /\ Head(xfer.lk.todo[p]) \in {"io", "sleep"}
  /\ xfer' = [xfer EXCEPT !.lk.todo[p] = Tail(@)]
  /\ UNCHANGED <<sessVars, callVars, histVars, authVars, stepVars, proxy, tok1, seen>>

\* Two threads that make any of the calls, one after another.
NextLk ==
  \E p \in {Caller, Refresher} : LkCall(p) \/ LkLock(p) \/ LkUnlock(p) \/ LkWait(p)

SpecLk == Init /\ [][NextLk]_vars

\* ------------------------------------------------------------------ claims

Returned(p) == ret[p].returned
RoundTrip(p) == op[p] \in {"Response", "Do"}
Failed(p) == ~ ret[p].err.isnil
AllErr(seq) == \A k \in 1..Len(seq) : seq[k] = "err"
\* The descriptor was sound when the call began: a URL, a method the HTTP
\* library accepts and no recorded validation error.
Sound(p) == r[p].uri # None /\ r[p].method # BadMethod /\ recErr[p] = <<>>

\* C1: a round trip on a descriptor with a target URL that begins after
\* Close() has returned makes no network attempt and returns an error that
\* contains "Connection Closed", whatever the builder steps were.
C1_ClosedFailsFast ==
  \A p \in Procs :
    (RoundTrip(p) /\ afterClose[p] /\ r[p].uri # None) =>
      /\ net[p] = 0
      /\ pc[p] \in {"preflight", "done"}
      /\ Returned(p) => (Failed(p) /\ Contains(ret[p].err.msgs, "Connection Closed"))

\* C1 witness: such a round trip has returned, on a descriptor that also
\* carried a validation error.
C1_Witness ==
  \E p \in Procs :
    /\ RoundTrip(p) /\ afterClose[p] /\ r[p].uri # None /\ Returned(p)
    /\ recErr[p] # <<>>
    /\ Contains(ret[p].err.msgs, "Connection Closed")

\* C2: when a builder step recorded a validation error, executing the
\* descriptor makes no network attempt and returns an error that contains
\* every error the builder recorded.
C2_ValidationErrorNoIO ==
  \A p \in Procs :
    (RoundTrip(p) /\ pc[p] # "build" /\ recErr[p] # <<>>) =>
      /\ net[p] = 0
      /\ pc[p] \in {"preflight", "done"}
      /\ Returned(p) =>
           /\ Failed(p)
           /\ \A k \in 1..Len(recErr[p]) : Contains(ret[p].err.msgs, recErr[p][k])

\* C2 witness: a descriptor with a URL and a recorded validation error was
\* executed on an open session and has returned.
C2_Witness ==
  \E p \in Procs :
    /\ RoundTrip(p) /\ Returned(p) /\ recErr[p] # <<>> /\ r[p].uri # None
    /\ ~ closed
    /\ ret[p].err.msgs = recErr[p]

\* C3: with retry enabled, the session open and the body absent or rewound
\* successfully each time, attempts follow one another until the first that
\* yields a response, six at most; the round trip returns the response if an
\* attempt yielded one and the transport error only after six failures; no
\* attempt follows a response.
C3_RetryUntilResponse ==
  \A p \in Procs :
    /\ net[p] <= 6
    /\ \A k \in 1..Len(out[p]) : out[p][k] = "resp" => (k = Len(out[p]) /\ net[p] = k)
    /\ (RoundTrip(p) /\ Returned(p) /\ Sound(p) /\ ~ closed /\ ~ r[p].noRetry
          /\ (r[p].body = "nil" \/ (r[p].body \in {"seeker", "bytes"} /\ ~ seekFail[p]))) =>
         \/ /\ net[p] >= 1 /\ out[p][net[p]] = "resp"
            /\ ret[p].resp = resp[p] /\ resp[p] # None
            /\ (op[p] = "Response" => ~ Failed(p))
         \/ /\ net[p] = 6 /\ Len(out[p]) = 6 /\ AllErr(out[p])
            /\ ret[p].resp = None
            /\ ret[p].err.msgs = <<"transport error">>

\* C3 witness: a retrying round trip with a seekable body returned the
\* response its fourth attempt yielded.
C3_Witness ==
  \E p \in Procs :
    /\ RoundTrip(p) /\ Returned(p) /\ ~ closed /\ r[p].body = "seeker"
    /\ net[p] = 4 /\ out[p] = <<"err", "err", "err", "resp">>
    /\ ret[p].resp # None

\* C4: with a body, a failed attempt is retried only when the body is a
\* seeker and its rewind to offset 0 succeeded, and every retried attempt
\* starts at offset 0; with a body that cannot seek exactly one attempt is
\* made and its transport error returned; nothing follows a failed rewind
\* but the return of the transport error.
C4_BodyRewind ==
  \A p \in Procs :
    r[p].body # "nil" =>
      /\ net[p] >= 2 =>
           /\ r[p].body \in {"seeker", "bytes"}
           /\ \A k \in 2..Len(posAt[p]) : posAt[p][k] = 0
      /\ (r[p].body = "stream" /\ Len(out[p]) >= 1 /\ out[p][1] = "err") =>
           /\ net[p] = 1
           /\ pc[p] \in {"seek", "done"}
           /\ Returned(p) => (ret[p].resp = None /\ ret[p].err.msgs = <<"transport error">>)
      /\ seekFail[p] =>
           /\ Returned(p) /\ net[p] = Len(out[p]) /\ AllErr(out[p])
           /\ ret[p].resp = None /\ ret[p].err.msgs = <<"transport error">>

\* C4 witness: a round trip with a seekable body is at its third attempt,
\* which began at offset 0 and has read the body to its end.
C4_Witness ==
  \E p \in Procs :
    /\ r[p].body = "seeker" /\ net[p] = 3 /\ pc[p] = "seek"
    /\ posAt[p] = <<0, 0, 0>> /\ bodyPos[p] = BodyLen

\* C5: when no-retry is in force (FailFast or Context was called, or
\* RoundTripTimeout is positive and a deadline is derived from the default
\* context) a round trip makes at most one attempt, takes no backoff sleep
\* and returns the transport error of that attempt.
C5_NoRetrySingleAttempt ==
  \A p \in Procs :
    /\ (RoundTrip(p) /\ pc[p] # "build" /\ (forced[p] \/ rtt > 0)) =>
         /\ net[p] <= 1
         /\ sleeps[p] = <<>>
         /\ pc[p] \in {"preflight", "send", "wire", "done"}
         /\ (Returned(p) /\ out[p] = <<"err">>) =>
              (ret[p].resp = None /\ ret[p].err.msgs = <<"transport error">>)
    /\ (RoundTrip(p) /\ rtt > 0 /\ ~ forced[p] /\ net[p] >= 1) => r[p].ctx = "deadline"

\* C5 witness: under a positive RoundTripTimeout a round trip on a
\* descriptor left with the default context returned its transport error.
C5_Witness ==
  \E p \in Procs :
    /\ RoundTrip(p) /\ Returned(p) /\ rtt > 0 /\ ~ forced[p]
    /\ r[p].ctx = "deadline" /\ out[p] = <<"err">> /\ sleeps[p] = <<>>

\* C6: an attempt that yields a response, whatever its status, is the last
\* attempt of its round trip and no sleep follows it; Do reports a status of
\* 400 or more as an error.
C6_ResponseEndsRoundTrip ==
  \A p \in Procs :
    resp[p] # None =>
      /\ Returned(p) \/ pc[p] = "inforet"
      /\ net[p] = Len(out[p]) /\ out[p][net[p]] = "resp"
      /\ Len(sleeps[p]) = net[p] - 1
      /\ (op[p] = "Do" /\ resp[p][1].status >= 400) => Failed(p)

\* C6 witness: Do returned the error of a 500 answer to its third attempt.
C6_Witness ==
  \E p \in Procs :
    /\ op[p] = "Do" /\ Returned(p) /\ resp[p] # None /\ resp[p][1].status = 500
    /\ net[p] = 3 /\ Failed(p)

\* C7: once Close() has returned, a retrying round trip that is between two
\* attempts starts no further attempt (and returns "Connection Closed").
C7_NoAttemptAfterClose ==
  \A p \in Procs : \A k \in sentClosed[p] : k = 1

\* C8: the Info cached when an attempt fails with a transport error is
\* cleared before the next attempt begins or the round trip returns.
C8_InfoClearedOnTransportError ==
  \A p \in Procs : needClear[p] => pc[p] \in {"seek", "chk", "clear"}

\* C9: a failed fetch inside Info() leaves nothing in the cache, and every
\* Info() call begun after Close() has returned returns an error.
C9_FailedInfoLeavesNoCache ==
  \A p \in Procs :
    (op[p] = "Info" /\ Returned(p)) =>
      /\ Failed(p) => info = 0
      /\ afterClose[p] => Failed(p)

\* C10: an Info() call that returns no error returns a models.Info that is
\* not nil and that a completed successful fetch was made into.
C10_InfoReturnsFetched ==
  \A p \in Procs :
    (op[p] = "Info" /\ Returned(p) /\ ~ Failed(p)) =>
      (ret[p].val # 0 /\ ret[p].val \in infoPop)

\* The Authorization header a round trip sent on its first attempt (the
\* request shares its header map with the descriptor).
AuthSent(p) == HeaderGet(r[p].header, "Authorization")
BasicAuth == "Basic " \o Base64(username \o ":" \o password)

\* C11: Authorize leaves a request that carries a non-empty Authorization
\* header as it is; otherwise it sets "Bearer <token>" when the session's
\* token is not empty and the Basic credentials of username:password when
\* it is; it changes no other header. (The token is tested when Authorize
\* begins and sent as it is when the header is set.)
C11_Authorize ==
  [][\A p \in Procs :
       (pc[p] \in {"send", "auth"} /\ pc'[p] = "wire") =>
         LET h == r[p].header
             h2 == r'[p].header
             tested == IF pc[p] = "send" THEN token ELSE tok1[p]
         IN  /\ \A k \in HeaderNames \ {"Authorization"} : h2[k] = h[k]
             /\ HeaderGet(h, "Authorization") # "" => h2 = h
             /\ (HeaderGet(h, "Authorization") = "" /\ tested # "") =>
                  h2["Authorization"] = <<"Bearer " \o token>>
             /\ (HeaderGet(h, "Authorization") = "" /\ tested = "") =>
                  h2["Authorization"] = <<BasicAuth>>]_vars

\* C11 witness: a user session without a token has sent a request with its
\* Basic credentials, or the refresh loop of a session its full fetch with
\* the credentials the fetch was built with while the session held a token.
C11_Witness ==
  \/ /\ sess = "user" /\ net[Caller] = 1
     /\ r[Caller].header["Authorization"] = <<"Basic cm9ja2V0c2thdGVzOnIwY2tldHNrOHRz">>
  \/ /\ bg = "fetch" /\ net[Refresher] = 1 /\ token # ""
     /\ r[Refresher].header["Authorization"] = <<"Basic cm9ja2V0c2thdGVzOnIwY2tldHNrOHRz">>

\* C12: in a session with a refresh loop, a round trip without an
\* Authorization header of its caller's that starts after a refresh has
\* stored a new token sends, on its first attempt, "Bearer" with a token
\* the session has been given since the round trip began: the token of that
\* refresh or of a later one.
C12_NewTokenSent ==
  \A p \in Procs :
    (sess = "usertoken" /\ op[p] = "Do" /\ net[p] >= 1 /\ "" \notin seen[p]) =>
      \E t \in seen[p] : AuthSent(p) = "Bearer " \o t

\* C12 witness: a round trip begun after the second token was stored has
\* sent it.
C12_Witness ==
  /\ sess = "usertoken" /\ op[Caller] = "Do" /\ net[Caller] = 1
  /\ seen[Caller] = {TokName(2)} /\ token = TokName(2)
  /\ AuthSent(Caller) = "Bearer t2"

\* C13: on a tick the loop first attempts the reauth and attempts the full
\* fetch only when the reauth failed; when either succeeds with a token the
\* server issued, that token becomes the session token; when both fail the
\* loop is at its fatal end, the session token is the one it was, and
\* nothing is attempted or stored from then on.
C13_RefreshOrder ==
  /\ [](bg = "reauth" => bgLog = <<>>)
  /\ [](bg = "fetch" => bgLog = <<"fail">>)
  /\ [](bg = "store" => (bgLog \in {<<"ok">>, <<"fail", "ok">>} /\ token = tokAtTick))
  /\ [](bg = "fatal" => (bgLog = <<"fail", "fail">> /\ token = tokAtTick
                           /\ \A p \in Procs : pc[p] = "exit"))
  /\ [][(bg = "store" /\ bg' # "store") =>
          (token' = newTok /\ (newTok # "" => newTok = TokName(nextTok - 1)))]_vars
  /\ [][token' # token => (bg = "store" /\ bgLog[Len(bgLog)] = "ok")]_vars
  /\ [][bg = "fatal" => (bg' = "fatal" /\ token' = token /\ net' = net /\ ticks' = ticks)]_vars

\* C13 witness: on the second tick both the reauth and the full fetch have
\* failed, and the token stored on the first tick is the session token.
C13_Witness ==
  bg = "fatal" /\ ticks = 2 /\ token = TokName(2) /\ bgLog = <<"fail", "fail">>

\* C14: once Close has been called the background goroutine does not end
\* otherwise than by returning with the idle connections released, after
\* which the token is what it was; a session made without token use has
\* no goroutine.
C14_GoroutineStops ==
  /\ (~ closerOpen /\ sess # "user") => bg # "fatal"
  /\ bg = "stopped" => (~ closerOpen /\ ~ idleOpen)
  /\ sess = "user" => bg = "none"

\* C15: a second Close panics where it closes the signal channel, with the
\* closed flag and the Info cache as they were; the first Close does not
\* panic, and the session is closed after the second.
C15_SecondClosePanics ==
  /\ [](closePc = "panic" => (closed /\ ~ closerOpen))
  /\ [][(closePc = "idle" /\ closePc' \notin {"idle", "exit"}) => closePc' = "flag"]_vars
  /\ [][(closePc \in {"done", "panic"} /\ closePc' # closePc /\ closePc' # "exit") =>
          (closePc' = "panic" /\ closed' = closed /\ info' = info
             /\ closerOpen' = closerOpen)]_vars

\* C15 witness: a second Close has panicked in a closed session, which has
\* refused a call of the caller's without a request.
C15_Witness ==
  /\ closePc = "panic" /\ closed /\ ~ closerOpen
  /\ calls[Caller] = 1 /\ pc[Caller] = "done" /\ net[Caller] = 0

\* The keys the pairs of args name, and the value the last pair that names
\* k gives it.
Named(args) == {args[2 * i - 1] : i \in 1..(Len(args) \div 2)}
LastPair(args, k) ==
  LET n == CHOOSE i \in 1..(Len(args) \div 2) :
             /\ args[2 * i - 1] = k
             /\ \A j \in (i + 1)..(Len(args) \div 2) : args[2 * j - 1] # k
  IN  args[2 * n]

\* The query parameters old with the pairs of args written over them.
Overwritten(old, args) ==
  [k \in (DOMAIN old) \cup Named(args) |->
     IF k \in Named(args) THEN <<LastPair(args, k)>> ELSE old[k]]

ParamsOdd == "Params was not passed an even number of arguments"
HeadersOdd == "WithHeaders was not passed an even number of arguments"

C17_OddArguments ==
  \A p \in Procs :
    /\ (lastStep[p].name \in {"Params", "Headers"} /\ Len(lastStep[p].args) % 2 = 1) =>
         /\ r[p].params = prevR[p].params
         /\ r[p].header = prevR[p].header
         /\ r[p].err.Messages =
              Append(prevR[p].err.Messages,
                     IF lastStep[p].name = "Params" THEN ParamsOdd ELSE HeadersOdd)
    /\ \A msg \in {ParamsOdd, HeadersOdd} :
         (RoundTrip(p) /\ pc[p] # "build" /\ Contains(recErr[p], msg)) =>
           /\ net[p] = 0
           /\ Returned(p) => (Failed(p) /\ Contains(ret[p].err.msgs, msg))

\* C17 witness: c.Req().UrlFor("info").Params("a","1","b").Response() has
\* returned the error, with no query parameter and no request.
C17_Witness ==
  /\ RoundTrip(Caller) /\ Returned(Caller) /\ r[Caller].uri # None
  /\ recErr[Caller] = <<ParamsOdd>> /\ ret[Caller].err.msgs = <<ParamsOdd>>
  /\ net[Caller] = 0 /\ DOMAIN r[Caller].params = {}

\* The operators that take one value, as a caller may spell them, and their
\* spelling in title case.
OneValueOp(tok) ==
  CASE tok \in {"Eq", "eq", "EQ"} -> "Eq"
    [] tok \in {"Lt", "lt", "LT"} -> "Lt"
    [] tok \in {"Lte", "lte", "LTE"} -> "Lte"
    [] tok \in {"Gt", "gt", "GT"} -> "Gt"
    [] tok \in {"Gte", "gte", "GTE"} -> "Gte"
    [] tok \in {"Ne", "ne", "NE"} -> "Ne"
    [] tok \in {"In", "in", "IN"} -> "In"
    [] tok \in {"Nin", "nin", "NIN"} -> "Nin"
    [] tok \in {"Re", "re", "RE"} -> "Re"
    [] OTHER -> ""

RangeOp(tok) == tok \in {"Between", "between", "BETWEEN", "Except", "except", "EXCEPT"}

\* What the filter arguments from i on ask for: the key/value pairs in
\* order, or no pairs and well = FALSE when an argument list is malformed or
\* uses a range operator.
RECURSIVE Asked(_, _)
Asked(args, i) ==
  LET n == Len(args)
      bad == [well |-> FALSE, pairs |-> <<>>]
      then(k, v, j) == LET rest == Asked(args, j)
                       IN  IF rest.well THEN [well |-> TRUE, pairs |-> <<k, v>> \o rest.pairs]
                                        ELSE bad
  IN  IF i > n THEN [well |-> TRUE, pairs |-> <<>>]
      ELSE IF args[i] \in {"reverse", "decode"} THEN then(args[i], "true", i + 1)
      ELSE IF args[i] \in {"sort", "limit", "offset", "slim", "params"}
        THEN IF i + 1 > n THEN bad ELSE then(args[i], args[i + 1], i + 2)
      ELSE IF i + 2 > n \/ OneValueOp(args[i + 1]) = "" THEN bad
      ELSE then(args[i], OneValueOp(args[i + 1]) \o "(" \o args[i + 2] \o ")", i + 3)

\* C18: Filter with well-formed arguments of the directive and one-value
\* forms leaves the method GET, the URL that of the prefix, and the query
\* parameters those the arguments ask for: "true" for reverse and decode,
\* the following token for sort, limit, offset, slim and params, and
\* "Op(value)" with the op in title case for an index.
C18_FilterParams ==
  \A p \in Procs :
    (lastStep[p].name = "Filter" /\ Asked(lastStep[p].args, 1).well) =>
      /\ r[p].method = "GET"
      /\ r[p].uri = Some([host |-> Endpoint,
                          path |-> (IF r[p].proxy = "" THEN <<>> ELSE <<r[p].proxy>>)
                                     \o APIPATH \o <<"machines">>,
                          query |-> NoValues])
      /\ r[p].params = Overwritten(prevR[p].params, Asked(lastStep[p].args, 1).pairs)
      /\ r[p].err = prevR[p].err

\* C18 witness: Filter("machines","sort","Name","limit","5","Stage","Eq",
\* "complete") on a fresh descriptor has yielded sort, limit and Stage.
C18_Witness ==
  /\ lastStep[Caller] =
       [name |-> "Filter",
        args |-> <<"sort", "Name", "limit", "5", "Stage", "Eq", "complete">>]
  /\ prevR[Caller] = Req("", "", "")
  /\ DOMAIN r[Caller].params = {"sort", "limit", "Stage"}
  /\ r[Caller].params["sort"] = <<"Name">>
  /\ r[Caller].params["limit"] = <<"5">>
  /\ r[Caller].params["Stage"] = <<"Eq(complete)">>

\* The malformed filter arguments: a directive without its value, an index
\* without its op or without its value, Between or Except without its
\* bounds, and an unknown op.
Malformed ==
  { <<"sort", "Name", "limit">>,
    <<"sort", "Name", "Stage">>,
    <<"sort", "Name", "Stage", "Eq">>,
    <<"a", "Eq", "1", "Stage", "Between">>,
    <<"Stage", "except", "1">>,
    <<"Stage", "Bogus", "x">> }

\* Whether a recorded message is one of Filter's.
FilterMsg(msg) ==
  msg \in {"Invalid Filter: requires exactly one parameter",
           "Invalid Filter: requires an op and at least 1 parameter",
           "Invalid Filter: op requires 1 parameter",
           "Invalid Filter: op requires 1 or 2 parameters",
           "Invalid Filter: unknown op"}

\* C19: Filter with malformed arguments records a validation error and
\* leaves the query parameters as they were, those it had compiled before
\* the malformed argument included; a round trip on a descriptor with such
\* an error sends no request.
C19_FilterMalformed ==
  \A p \in Procs :
    /\ (lastStep[p].name = "Filter" /\ lastStep[p].args \in Malformed) =>
         /\ Len(r[p].err.Messages) = Len(prevR[p].err.Messages) + 1
         /\ FilterMsg(r[p].err.Messages[Len(r[p].err.Messages)])
         /\ r[p].params = prevR[p].params
    /\ (RoundTrip(p) /\ pc[p] # "build" /\ \E k \in 1..Len(recErr[p]) : FilterMsg(recErr[p][k])) =>
         /\ net[p] = 0
         /\ Returned(p) => Failed(p)

\* C19 witness: c.Req().Filter("machines","Stage","Bogus","x").Response()
\* has returned the unknown-op error without a request.
C19_Witness ==
  /\ RoundTrip(Caller) /\ Returned(Caller) /\ net[Caller] = 0
  /\ recErr[Caller] = <<"Invalid Filter: unknown op">>
  /\ ret[Caller].err.msgs = recErr[Caller]
  /\ DOMAIN r[Caller].params = {}

\* C20: a builder step on a descriptor that carries a validation error
\* leaves its method, URL, headers, query parameters and body as they were.
C20_NoOpAfterError ==
  \A p \in Procs :
    (lastStep[p].name # "" /\ ContainsError(prevR[p].err)) =>
      /\ r[p].method = prevR[p].method
      /\ r[p].uri = prevR[p].uri
      /\ r[p].header = prevR[p].header
      /\ r[p].params = prevR[p].params
      /\ r[p].body = prevR[p].body

\* --------------------------------------------- Do, GetBlob and PatchToFull

MaxFile == 2

\* The checksum a file's fingerprint prints.
FileSum == "abc"

\* The bytes io.Copy moves out of a response body.
BlobLen(rs) == IF rs.body = "empty" THEN 0 ELSE BodyLen

\* c.Req().Meth(m).UrlFor("info").Do(val): one call of Do with each kind of
\* destination. HEAD is asked with a destination that is not a byte writer.
DoCall(p) ==
  /\ \E m \in {"GET", "HEAD"}, val \in DoArgs \ {"file"} :
       /\ m = "HEAD" => ~ IsWriter(val)
       /\ Begin(p, "Do", val)
       /\ r' = [r EXCEPT ![p] = DoHeaders(UrlFor(Meth(Req("", "", ""), m), <<"info">>), val)]
  /\ afterClose' = [afterClose EXCEPT ![p] = CloseReturned]
  /\ pc' = [pc EXCEPT ![p] = "preflight"]
  /\ UNCHANGED <<sessVars, destObj, early>>
  /\ UNCHANGED <<auxVars, tok1>>

\* shasum in GetBlob: it is assigned only when mts.Regenerate returned an
\* error, and then holds whatever the fingerprint prints.
ShaSum(regen, s) == IF regen = "fail" THEN s ELSE ""

\* The request GetBlob makes.
BlobReq(shasum) ==
  LET req == UrlFor(Req("", "", ""), <<"files", "x">>)
  IN  IF shasum # ""
        THEN Headers(req, <<"If-None-Match", "\"SHA256:" \o shasum \o "\"">>)
        ELSE req

\* Client.GetBlob(dest, "x") up to its call of Do: dest is a byte writer or
\* an *os.File of some size at some offset; Stat and Regenerate succeed or
\* fail.
GetBlob(p) ==
  /\ \E isFile \in BOOLEAN, size \in 0..MaxFile, statOk \in BOOLEAN,
        regen \in {"ok", "fail"}, s \in {"", FileSum} :
       \E pos \in {0, size} :
         /\ ~ isFile => size = 0 /\ statOk /\ regen = "ok" /\ s = ""
         /\ isFile /\ regen = "ok" => s = FileSum
         /\ Begin(p, "GetBlob", IF isFile THEN "file" ELSE "writer")
         /\ LET shasum == IF isFile THEN ShaSum(regen, s) ELSE ""
            IN  /\ xfer' = [xfer EXCEPT
                     !.fi[p] = [size |-> size, pos |-> pos],
                     !.blob[p] =
                       [stage |-> "do", isFile |-> isFile, size0 |-> size,
                        startSz |-> IF isFile /\ statOk THEN size ELSE 0,
                        regen |-> IF isFile THEN regen ELSE "none",
                        shasum |-> shasum, err |-> NilErr, truncated |-> FALSE]]
                /\ r' = [r EXCEPT ![p] =
                     DoHeaders(BlobReq(shasum), IF isFile THEN "file" ELSE "writer")]
  /\ afterClose' = [afterClose EXCEPT ![p] = CloseReturned]
  /\ pc' = [pc EXCEPT ![p] = "preflight"]
  /\ UNCHANGED <<sessVars, destObj, early>>
  /\ UNCHANGED <<authVars, stepVars, proxy, tok1>>

\* A GetBlob that never truncates.
TruncateToNever(sz, startSz, size) == size

\* The size of the file after "if sz != startSz { fi.Truncate(sz) }".
TruncateTo(sz, startSz, size) == IF sz # startSz THEN sz ELSE size

\* GetBlob after Do has returned: Do's error is returned as it is; a file is
\* cut at the offset the transfer left it at.
GetBlobRet(p) ==
  /\ pc[p] = "blobret"
  /\ LET res == ret[p]
         f == xfer.fi[p]
         b == xfer.blob[p]
         n == IF res.resp = None THEN 0 ELSE BlobLen(res.resp[1])
         pos1 == IF "copied" \in res.did THEN f.pos + n
                 ELSE IF "seekEnd" \in res.did THEN f.size
                 ELSE f.pos
         size1 == IF "copied" \in res.did /\ pos1 > f.size THEN pos1 ELSE f.size
     IN  IF ~ res.err.isnil
           THEN xfer' = [xfer EXCEPT !.blob[p] = [@ EXCEPT !.stage = "ret", !.err = res.err]]
           ELSE IF b.isFile
             THEN xfer' = [xfer EXCEPT
                    !.fi[p] = [size |-> TruncateTo(pos1, b.startSz, size1), pos |-> pos1],
                    !.blob[p] = [@ EXCEPT !.stage = "ret", !.truncated = pos1 # b.startSz]]
             ELSE xfer' = [xfer EXCEPT !.blob[p] = [@ EXCEPT !.stage = "ret"]]
  /\ pc' = [pc EXCEPT ![p] = "done"]
  /\ UNCHANGED <<sessVars, calls, steps, op, r, dest, destObj, early, idx, lastErr, resp,
                 bodyPos, ret, histVars>>
  /\ UNCHANGED <<authVars, stepVars, proxy, tok1, seen>>

\* The objects PatchToFull is asked to turn Machine into: one with the same
\* key and one with another key.
PatchTargets == {[Machine EXCEPT !.val = "b"], [Machine EXCEPT !.key = "m2"]}

\* c.Req().PatchToFull(Machine, new, paranoid) up to its call of Do.
PatchToFull(p) ==
  /\ \E new \in PatchTargets, paranoid \in BOOLEAN :
       LET r0 == IF paranoid THEN ParanoidPatch(Req("", "", "")) ELSE Req("", "", "")
       IN  /\ Begin(p, "PatchToFull", "value")
           /\ r' = [r EXCEPT ![p] = DoHeaders(PatchTo(r0, Machine, new), "value")]
           /\ xfer' = [xfer EXCEPT !.full[p] =
                         [stage |-> "do", old |-> Machine, new |-> new,
                          paranoid |-> paranoid, res |-> "clone", err |-> NilErr]]
  /\ afterClose' = [afterClose EXCEPT ![p] = CloseReturned]
  /\ pc' = [pc EXCEPT ![p] = "preflight"]
  /\ UNCHANGED <<sessVars, destObj, early>>
  /\ UNCHANGED <<authVars, stepVars, proxy, tok1>>

\* What PatchToFull returns: old when Do failed, else res, which Do decoded
\* the answer into or left the clone of old.
FullResult(e, filled) ==
  IF ~ e.isnil THEN "old" ELSE IF filled THEN "server" ELSE "clone"

PatchToFullRet(p) ==
  /\ pc[p] = "fullret"
  /\ xfer' = [xfer EXCEPT !.full[p] =
                [@ EXCEPT !.stage = "ret",
                          !.res = FullResult(ret[p].err, ret[p].filled),
                          !.err = ret[p].err]]
  /\ pc' = [pc EXCEPT ![p] = "done"]
  /\ UNCHANGED <<sessVars, calls, steps, op, r, dest, destObj, early, idx, lastErr, resp,
                 bodyPos, ret, histVars>>
  /\ UNCHANGED <<authVars, stepVars, proxy, tok1, seen>>

\* One caller thread makes calls of Do, GetBlob and PatchToFull; an attempt
\* ends with any of the answers, those at the bound of success among them.
NextDo ==
  \/ calls[Caller] < ConcCalls /\ DoCall(Caller)
  \/ calls[Caller] < ConcCalls /\ GetBlob(Caller)
  \/ calls[Caller] < ConcCalls /\ PatchToFull(Caller)
  \/ Preflight(Caller)
  \/ Send(Caller)
  \/ RecvOf(Caller, AllResponses)
  \/ GetBlobRet(Caller)
  \/ PatchToFullRet(Caller)

SpecDo == InitBuild /\ [][NextDo]_vars

\* ------------------------------------------------------------ local proxy

MaxLoops == 2

\* The sessions a thread creates, the first one included.
MaxSessions == 2

\* A locallyProxied that does not look whether the path is a socket.
locallyProxiedNoStat(neverProxy) ==
  IF neverProxy THEN "" ELSE proxy.env

\* locallyProxied(neverProxy): the socket path of the environment when a
\* socket is there, unless the client never uses a proxy.
locallyProxied(neverProxy) ==
  IF neverProxy THEN ""
  ELSE IF proxy.env # "" /\ proxy.env \in proxy.sockets THEN proxy.env
  ELSE ""

\* Client.realEndpoint of a session: "http://unix" when a local proxy is
\* found at the time of the call, the endpoint otherwise.
realEndpointOf(neverProxy) ==
  IF locallyProxied(neverProxy) = "" THEN Endpoint ELSE "http://unix"

\* transport(useproxy): what the transport it builds dials, the socket path
\* found at the time of the call or, "direct", the host of the URL by TLS.
transport(useproxy) ==
  LET lp == locallyProxied(~ useproxy)
  IN  IF lp = "" THEN "direct" ELSE lp

\* The read of weAreTheProxy at the top of MakeProxy is made without the
\* mutex that guards its writes: it yields the value of the last write, or
\* of an earlier one the reading thread is not ordered after.
FlagRead(held) == held

\* A write of weAreTheProxy by thread w (0 for a goroutine): w finds v from
\* then on, the others v or what they could find before.
FlagWrite(held, w, v) == [q \in Procs |-> IF q = w THEN {v} ELSE held[q] \cup {v}]

\* Thread p takes localProxyMux, under which the writes are made, and finds
\* the last of them from then on.
FlagSync(held, p, v) == [held EXCEPT ![p] = {v}]

\* Client.MakeProxy(socketPath) up to localProxyMux.Lock(): the call returns
\* nil when this process is the proxy or one is announced (the platform is
\* not windows).
ProxyCheckOn(p, paths) ==
  /\ proxy.pc[p] = "idle"
  /\ \E path \in paths, flag \in FlagRead(proxy.flagVals[p]) :
       IF flag \/ locallyProxied(proxy.never[p]) # ""
         THEN proxy' = [proxy EXCEPT !.ret[p] = "nil"]
         ELSE proxy' = [proxy EXCEPT
                !.pc[p] = "lock",
                !.arg[p] = [socketPath |-> path, neverProxy |-> proxy.never[p]],
                !.ret[p] = ""]
  /\ UNCHANGED <<sessVars, callVars, histVars, authVars, stepVars, xfer, tok1, seen>>

ProxyCheck(p) == ProxyCheckOn(p, SocketPaths)

\* MakeProxy from localProxyMux.Lock() to the start of the goroutine:
\* net.Listen fails on a path where a socket is, and the call returns its
\* error; otherwise the flag is set and the goroutine serves.
ProxyStart(p) ==
  /\ proxy.pc[p] = "lock"
  /\ proxy.localProxyMux = 0
  /\ Len(proxy.loops) < MaxLoops
  /\ LET path == proxy.arg[p].socketPath
     IN  IF path \in proxy.sockets
           THEN proxy' = [proxy EXCEPT
                  !.ret[p] = "err",
                  !.pc[p] = "idle",
                  !.arg[p] = NoProxyArg,
                  !.flagVals = FlagSync(@, p, proxy.weAreTheProxy)]
           ELSE proxy' = [proxy EXCEPT
                  !.sockets = @ \cup {path},
                  !.weAreTheProxy = TRUE,
                  !.flagVals = FlagWrite(@, p, TRUE),
                  !.loops = Append(@, [path |-> path, owner |-> p, gen |-> proxy.gen[p],
                                       trans |-> proxy.transport[p], st |-> "serve"]),
                  !.localProxyMux = p,
                  !.pc[p] = "made"]
  /\ UNCHANGED <<sessVars, callVars, histVars, authVars, stepVars, xfer, tok1, seen>>

\* MakeProxy after the start of the goroutine: the environment announces
\* the socket.
ProxySetenv(p) ==
  /\ proxy.pc[p] = "made"
  /\ proxy' = [proxy EXCEPT !.env = proxy.arg[p].socketPath, !.pc[p] = "env"]
  /\ UNCHANGED <<sessVars, callVars, histVars, authVars, stepVars, xfer, tok1, seen>>

\* The rest of MakeProxy: the client gets the transport that transport(true)
\* builds now, the mutex is released.
ProxyFinish(p) ==
  /\ proxy.pc[p] = "env"
  /\ proxy' = [proxy EXCEPT
       !.transport[p] = transport(TRUE),
       !.localProxyMux = 0,
       !.ret[p] = "nil",
       !.pc[p] = "idle",
       !.arg[p] = NoProxyArg]
  /\ UNCHANGED <<sessVars, callVars, histVars, authVars, stepVars, xfer, tok1, seen>>

\* Something outside the program removes a socket file.
SocketVanish(path) ==
  /\ path \in proxy.sockets
  /\ proxy' = [proxy EXCEPT !.sockets = @ \ {path}]
  /\ UNCHANGED <<sessVars, callVars, histVars, authVars, stepVars, xfer, tok1, seen>>

\* server.Serve has returned in the i-th goroutine and os.Stat finds no
\* socket at its path (while one is there the goroutine serves again).
LoopVanish(i) ==
  /\ i \in 1..Len(proxy.loops)
  /\ proxy.loops[i].st = "serve"
  /\ proxy.loops[i].path \notin proxy.sockets
  /\ proxy' = [proxy EXCEPT !.loops[i].st = "leave"]
  /\ UNCHANGED <<sessVars, callVars, histVars, authVars, stepVars, xfer, tok1, seen>>

\* The goroutine takes the mutex, withdraws the announcement, removes the
\* path, restores the transport, clears the flag and returns.
LoopEnd(i) ==
  /\ i \in 1..Len(proxy.loops)
  /\ proxy.loops[i].st = "leave"
  /\ proxy.localProxyMux = 0
  /\ LET l == proxy.loops
     IN  proxy' = [proxy EXCEPT
           !.env = "",
           !.sockets = @ \ {l[i].path},
           !.transport[l[i].owner] =
              IF proxy.gen[l[i].owner] = l[i].gen THEN l[i].trans ELSE @,
           !.weAreTheProxy = FALSE,
           !.flagVals = FlagWrite(@, 0, FALSE),
           !.loops = [k \in 1..(Len(l) - 1) |-> IF k < i THEN l[k] ELSE l[k + 1]]]
  /\ UNCHANGED <<sessVars, callVars, histVars, authVars, stepVars, xfer, tok1, seen>>

\* TokenSessionProxy(endpoint, token, useproxy): thread p goes on with a new
\* session, whose transport is built at this time.
NewSession(p) ==
  /\ proxy.pc[p] = "idle"
  /\ proxy.gen[p] < MaxSessions
  /\ \E useproxy \in BOOLEAN :
       proxy' = [proxy EXCEPT
         !.gen[p] = @ + 1,
         !.never[p] = ~ useproxy,
         !.transport[p] = transport(useproxy),
         !.url[p] = ""]
  /\ UNCHANGED <<sessVars, callVars, histVars, authVars, stepVars, xfer, tok1, seen>>

\* c.Req().UrlFor(...) on the session of thread p: the host of the URL is
\* realEndpoint() at this time.
ProxyUrlFor(p) ==
  /\ proxy.pc[p] = "idle"
  /\ proxy.url[p] = ""
  /\ proxy' = [proxy EXCEPT !.url[p] = realEndpointOf(proxy.never[p])]
  /\ UNCHANGED <<sessVars, callVars, histVars, authVars, stepVars, xfer, tok1, seen>>

\* Do on that descriptor: the request for the URL goes out by the transport
\* the session has at this time, and the descriptor is done with.
ProxyDo(p) ==
  /\ proxy.pc[p] = "idle"
  /\ proxy.url[p] # ""
  /\ proxy' = [proxy EXCEPT !.url[p] = ""]
  /\ UNCHANGED <<sessVars, callVars, histVars, authVars, stepVars, xfer, tok1, seen>>

\* Two threads that create sessions, call MakeProxy on them and send requests,
\* the goroutines they start and the socket files.
NextProxy ==
  \/ \E p \in {Caller, Refresher} :
       ProxyCheck(p) \/ ProxyStart(p) \/ ProxySetenv(p) \/ ProxyFinish(p)
  \/ \E path \in SocketPaths : SocketVanish(path)
  \/ \E i \in 1..MaxLoops : LoopVanish(i) \/ LoopEnd(i)

SpecProxy == InitBuild /\ [][NextProxy]_vars

\* One thread that creates sessions, sends requests and calls MakeProxy,
\* while another thread of the process calls MakeProxy on its own session.
NextVia ==
  \/ NewSession(Caller) \/ ProxyUrlFor(Caller) \/ ProxyDo(Caller)
  \/ ProxyCheckOn(Caller, {"/b"}) \/ ProxyCheckOn(Refresher, {"/a"})
  \/ \E p \in {Caller, Refresher} : ProxyStart(p) \/ ProxySetenv(p) \/ ProxyFinish(p)
  \/ \E path \in SocketPaths : SocketVanish(path)
  \/ \E i \in 1..MaxLoops : LoopVanish(i) \/ LoopEnd(i)

SpecVia == InitBuild /\ [][NextVia]_vars

\* One thread that creates sessions and sends requests while another thread
\* of the process makes its session the proxy, on a socket that may vanish.
NextLocal ==
  \/ NewSession(Caller) \/ ProxyUrlFor(Caller) \/ ProxyDo(Caller)
  \/ ProxyCheckOn(Refresher, {"/a"})
  \/ ProxyStart(Refresher) \/ ProxySetenv(Refresher) \/ ProxyFinish(Refresher)
  \/ \E path \in SocketPaths : SocketVanish(path)
  \/ \E i \in 1..MaxLoops : LoopVanish(i) \/ LoopEnd(i)

SpecLocal == InitBuild /\ [][NextLocal]_vars

\* C25: at most one proxy goroutine exists at any time, and weAreTheProxy is
\* true exactly while one exists.
C25_OneProxyLoop ==
  /\ Len(proxy.loops) <= 1
  /\ proxy.weAreTheProxy <=> Len(proxy.loops) > 0

\* ------------------------------------------------------- patch generation

\* The entities patches are made for: one prefix and key, two fields.
PatchFields == <<"Name", "Stage">>
PatchVals == {"a", "b", "c"}
Entities == [{"Name", "Stage"} -> PatchVals]

\* A patch generator that never emits test operations.
GenPatchNoTest(old, new, paranoid) ==
  LET RECURSIVE ops(_)
      ops(i) ==
        IF i > Len(PatchFields) THEN <<>>
        ELSE LET f == PatchFields[i]
             IN  (IF old[f] = new[f] THEN <<>>
                  ELSE <<[op |-> "replace", path |-> f, value |-> new[f]]>>) \o ops(i + 1)
  IN  ops(1)

\* GenPatch(old, new, paranoid): for every field in which new differs from
\* old a replace operation with the value of new, preceded in paranoid mode
\* by a test operation with the value of old.
GenPatch(old, new, paranoid) ==
  LET RECURSIVE ops(_)
      ops(i) ==
        IF i > Len(PatchFields) THEN <<>>
        ELSE LET f == PatchFields[i]
                 test == IF paranoid
                           THEN <<[op |-> "test", path |-> f, value |-> old[f]]>>
                           ELSE <<>>
             IN  (IF old[f] = new[f] THEN <<>>
                  ELSE test \o <<[op |-> "replace", path |-> f, value |-> new[f]]>>)
                 \o ops(i + 1)
  IN  ops(1)

\* The server applies a patch to an object: the operations in order, a test
\* that does not hold rejects the patch.
ApplyPatch(patch, obj) ==
  LET RECURSIVE run(_, _)
      run(i, o) ==
        IF i > Len(patch) THEN [ok |-> TRUE, obj |-> o]
        ELSE IF patch[i].op = "test"
          THEN IF o[patch[i].path] = patch[i].value
                 THEN run(i + 1, o)
                 ELSE [ok |-> FALSE, obj |-> obj]
        ELSE run(i + 1, [o EXCEPT ![patch[i].path] = patch[i].value])
  IN  run(1, obj)

\* A patch is generated for some old and new.
GenStep ==
  /\ xfer.gen.stage = "none"
  /\ \E old \in Entities, new \in Entities, paranoid \in BOOLEAN :
       xfer' = [xfer EXCEPT !.gen =
                  [NoGen EXCEPT !.stage = "made", !.old = old, !.new = new,
                                !.paranoid = paranoid,
                                !.patch = GenPatch(old, new, paranoid)]]
  /\ UNCHANGED <<sessVars, callVars, histVars, authVars, stepVars, proxy, tok1, seen>>

\* It is applied to some object.
ApplyStep ==
  /\ xfer.gen.stage = "made"
  /\ \E target \in Entities :
       xfer' = [xfer EXCEPT !.gen =
                  [@ EXCEPT !.stage = "applied", !.target = target,
                            !.out = ApplyPatch(xfer.gen.patch, target)]]
  /\ UNCHANGED <<sessVars, callVars, histVars, authVars, stepVars, proxy, tok1, seen>>

NextPatch == GenStep \/ ApplyStep

SpecPatch == InitBuild /\ [][NextPatch]_vars

\* C27: a patch generated from old and new and applied to old yields new;
\* a patch generated in paranoid mode and applied to an object that differs
\* from old in a field the patch changes is rejected.
C27_PatchRoundTrip ==
  LET g == xfer.gen
  IN  g.stage = "applied" =>
        /\ g.target = g.old => g.out.ok /\ g.out.obj = g.new
        /\ (g.paranoid /\ \E f \in DOMAIN g.old : g.old[f] # g.new[f] /\ g.target[f] # g.old[f])
             => ~ g.out.ok

\* C27 witness: a paranoid patch that changes Stage was applied to an object
\* with another Stage than old's and was rejected.
C27_Witness ==
  LET g == xfer.gen
  IN  /\ g.stage = "applied" /\ g.paranoid
      /\ g.old.Stage # g.new.Stage /\ g.target.Stage # g.old.Stage
      /\ ~ g.out.ok

\* C28: the refresh loop of a session does not take the fatal path when
\* the reauth and the full fetch of a tick both failed only because the
\* session had been closed.
C28_CloseNotFatal == bg = "fatal" => refused # <<TRUE, TRUE>>

\* Between and Except in title case, as a caller may spell them.
RangeOpTitle(tok) ==
  CASE tok \in {"Between", "between", "BETWEEN"} -> "Between"
    [] tok \in {"Except", "except", "EXCEPT"} -> "Except"
    [] OTHER -> ""

\* A value token that holds both bounds, joined by a comma.
Joined(tok) == tok \in {"1,5", "a,b"}

\* What the filter arguments from i on ask for when an index may also take
\* Between or Except: one comma-joined token or the next two tokens are the
\* bounds, and what follows them is read as the next argument.
RECURSIVE AskedRange(_, _)
AskedRange(args, i) ==
  LET n == Len(args)
      bad == [well |-> FALSE, pairs |-> <<>>]
      then(k, v, j) == LET rest == AskedRange(args, j)
                       IN  IF rest.well THEN [well |-> TRUE, pairs |-> <<k, v>> \o rest.pairs]
                                        ELSE bad
  IN  IF i > n THEN [well |-> TRUE, pairs |-> <<>>]
      ELSE IF args[i] \in {"reverse", "decode"} THEN then(args[i], "true", i + 1)
      ELSE IF args[i] \in {"sort", "limit", "offset", "slim", "params"}
        THEN IF i + 1 > n THEN bad ELSE then(args[i], args[i + 1], i + 2)
      ELSE IF i + 2 > n THEN bad
      ELSE IF OneValueOp(args[i + 1]) # ""
        THEN then(args[i], OneValueOp(args[i + 1]) \o "(" \o args[i + 2] \o ")", i + 3)
      ELSE IF RangeOpTitle(args[i + 1]) = "" THEN bad
      ELSE IF Joined(args[i + 2])
        THEN then(args[i], RangeOpTitle(args[i + 1]) \o "(" \o args[i + 2] \o ")", i + 3)
      ELSE IF i + 3 > n THEN bad
      ELSE then(args[i], RangeOpTitle(args[i + 1]) \o "(" \o args[i + 2] \o ","
                           \o args[i + 3] \o ")", i + 4)

\* The argument list uses Between or Except.
UsesRange(args) == \E i \in 1..Len(args) : RangeOp(args[i])

\* C29: for Between and Except, however spelled, Filter takes one token
\* that holds a comma as "Op(token)" and otherwise the next two tokens as
\* "Op(lo,hi)", goes on with the argument after the tokens it took, and
\* records a validation error for a lone token without a comma.
C29_RangeBounds ==
  \A p \in Procs :
    (lastStep[p].name = "Filter" /\ UsesRange(lastStep[p].args)) =>
      LET want == AskedRange(lastStep[p].args, 1)
      IN  IF want.well
            THEN /\ r[p].params = Overwritten(prevR[p].params, want.pairs)
                 /\ r[p].err = prevR[p].err
            ELSE /\ r[p].params = prevR[p].params
                 /\ Len(r[p].err.Messages) = Len(prevR[p].err.Messages) + 1

\* C29 witness: Filter("machines","Stage","between","1,5","sort","Name") on
\* a fresh descriptor has yielded Stage = Between(1,5) and sort = Name.
C29_Witness ==
  /\ lastStep[Caller] =
       [name |-> "Filter", args |-> <<"Stage", "between", "1,5", "sort", "Name">>]
  /\ prevR[Caller] = Req("", "", "")
  /\ DOMAIN r[Caller].params = {"Stage", "sort"}
  /\ r[Caller].params["Stage"] = <<"Between(1,5)">>
  /\ r[Caller].params["sort"] = <<"Name">>

\* C22: a round trip that has returned after an attempt yielded a response
\* has the ETag of that response on its descriptor, whatever the status and
\* whether or not an error was returned; one that obtained no response has
\* the ETag the descriptor began with, which is none.
C22_ETagRecorded ==
  \A p \in Procs :
    (RoundTrip(p) /\ Returned(p)) =>
      IF Contains(out[p], "resp")
        THEN /\ resp[p] # None
             /\ r[p].eTag = resp[p][1].etag
        ELSE r[p].eTag = ""

\* C22 witness: Do has returned the error of a 500 response, whose ETag is
\* on the descriptor.
C22_Witness ==
  /\ op[Caller] = "Do" /\ Returned(Caller) /\ Failed(Caller)
  /\ resp[Caller] # None /\ resp[Caller][1].status = 500
  /\ r[Caller].eTag = "e2"

\* The last response of a call that has returned.
Answer(p) == ret[p].resp[1]
Answered(p) == Returned(p) /\ ret[p].resp # None

\* C21: when Do is given a byte writer and the answer is a 304, Do returns no
\* error and copies nothing into the writer, and moves the writer to its end
\* exactly when it can seek; when the answer is below 300 the body is copied
\* into the writer.
C21_WriterDest ==
  \A p \in Procs :
    (op[p] \in {"Do", "GetBlob"} /\ Answered(p) /\ IsWriter(dest[p])) =>
      /\ Answer(p).status = 304 =>
           /\ ret[p].err.isnil
           /\ "copied" \notin ret[p].did
           /\ dest[p] \in {"writeseeker", "file"} <=> "seekEnd" \in ret[p].did
      /\ Answer(p).status < 300 => "copied" \in ret[p].did

\* C21 witness: Do with a writer that seeks has returned nil for a 304 and
\* has moved the writer to its end.
C21_Witness ==
  /\ op[Caller] = "Do" /\ dest[Caller] = "writeseeker" /\ Answered(Caller)
  /\ Answer(Caller).status = 304
  /\ ret[Caller].err.isnil /\ ret[Caller].did = {"seekEnd"}

\* C30: a HEAD request whose destination is no byte writer returns, for a
\* status of 400 and above, an error of the status code and the status text
\* alone without reading the body; for a status up to 300 or of 304, nil,
\* having filled the destination from the headers when there is one; for
\* any other status an error with the status code.
C30_HeadStatus ==
  \A p \in Procs :
    (op[p] = "Do" /\ r[p].method = "HEAD" /\ Answered(p) /\ ~ IsWriter(dest[p])) =>
      LET code == Answer(p).status
          e == ret[p].err
      IN  IF code >= 400
            THEN /\ ~ e.isnil /\ e.code = code
                 /\ e.msgs = <<IF code = 404 THEN "Not Found" ELSE "Internal Server Error">>
                 /\ "read" \notin ret[p].did
          ELSE IF code <= 300 \/ code = 304
            THEN /\ e.isnil
                 /\ "filled" \in ret[p].did <=> dest[p] # "nil"
                 /\ "read" \notin ret[p].did
          ELSE /\ ~ e.isnil /\ e.code = code
               /\ e.msgs = <<"Temporary Redirect">>

\* C30 witness: a HEAD call has returned the error of a 404.
C30_Witness ==
  /\ op[Caller] = "Do" /\ r[Caller].method = "HEAD" /\ Answered(Caller)
  /\ Answer(Caller).status = 404 /\ ret[Caller].err.code = 404

\* C23: the request of a GetBlob into a file whose fingerprint was computed
\* carries If-None-Match with the quoted checksum; the request of any other
\* GetBlob carries no If-None-Match.
C23_IfNoneMatch ==
  \A p \in Procs :
    (op[p] = "GetBlob" /\ xfer.blob[p].stage # "none") =>
      r[p].header["If-None-Match"] =
        IF xfer.blob[p].isFile /\ xfer.blob[p].regen = "ok"
          THEN <<"\"SHA256:" \o FileSum \o "\"">>
          ELSE <<>>

\* C24: a GetBlob into a file that was answered 304 returns nil, has copied
\* nothing and leaves the file as long as it was; one that was answered
\* below 300 and ended at an offset other than the starting size leaves the
\* file cut at that offset.
C24_FileAfterBlob ==
  \A p \in Procs :
    (op[p] = "GetBlob" /\ xfer.blob[p].stage = "ret" /\ xfer.blob[p].isFile /\ Answered(p)) =>
      /\ Answer(p).status = 304 =>
           /\ xfer.blob[p].err.isnil
           /\ "copied" \notin ret[p].did
           /\ xfer.fi[p].size = xfer.blob[p].size0
      /\ (Answer(p).status < 300 /\ xfer.blob[p].err.isnil /\ xfer.fi[p].pos # xfer.blob[p].startSz) =>
           xfer.fi[p].size = xfer.fi[p].pos

\* C24 witness: a transfer of a shorter blob into a file has cut the file.
C24_Witness ==
  /\ op[Caller] = "GetBlob" /\ xfer.blob[Caller].stage = "ret" /\ xfer.blob[Caller].isFile
  /\ Answered(Caller) /\ Answer(Caller).status = 200
  /\ xfer.fi[Caller].size < xfer.blob[Caller].size0

\* C26: a PatchToFull whose old and new differ in prefix or key returns old
\* and the error PatchTo recorded, after no attempt on the network and with
\* a descriptor that has no method, body or URL set.
C26_PatchMismatch ==
  \A p \in Procs :
    (op[p] = "PatchToFull" /\ xfer.full[p].stage = "ret"
       /\ (xfer.full[p].old.prefix # xfer.full[p].new.prefix \/ xfer.full[p].old.key # xfer.full[p].new.key)) =>
      /\ ~ xfer.full[p].err.isnil
      /\ Contains(xfer.full[p].err.msgs, "Cannot patch, or change keys")
      /\ xfer.full[p].res = "old"
      /\ net[p] = 0
      /\ r[p].method = "GET" /\ r[p].body = "nil" /\ r[p].uri = None

\* C26 witness: a PatchToFull from key m1 to key m2 has returned.
C26_Witness ==
  /\ op[Caller] = "PatchToFull" /\ xfer.full[Caller].stage = "ret"
  /\ xfer.full[Caller].new.key = "m2" /\ xfer.full[Caller].res = "old" /\ net[Caller] = 0

\* C31: a call of Do that is not a HEAD, with a destination that is no byte
\* writer and an answer below 400 other than 304, returns an error when the
\* media type of the answer is not application/json, whatever the body and
\* the destination; when it is, a body that is not empty is decoded into a
\* destination that is not nil, and the error of the decoding is returned.
C31_ContentType ==
  \A p \in Procs :
    (op[p] = "Do" /\ r[p].method # "HEAD" /\ Answered(p) /\ ~ IsWriter(dest[p])
       /\ Answer(p).status < 400 /\ Answer(p).status # 304) =>
      IF Answer(p).ctype \notin {"application/json", "application/json; charset=utf-8"}
        THEN /\ ~ ret[p].err.isnil
             /\ Contains(ret[p].err.msgs, "No decoder for content-type")
             /\ ~ ret[p].filled
        ELSE IF dest[p] # "nil" /\ Answer(p).body # "empty"
          THEN /\ "read" \in ret[p].did
               /\ Answer(p).body = "good" => ret[p].err.isnil /\ ret[p].filled
               /\ Answer(p).body = "bad" => ~ ret[p].err.isnil
          ELSE ret[p].err.isnil /\ ~ ret[p].filled

\* C31 witness: Do with a nil destination has returned the error of a 200
\* whose body is empty and whose type is text/plain.
C31_Witness ==
  /\ op[Caller] = "Do" /\ r[Caller].method = "GET" /\ dest[Caller] = "nil"
  /\ Answered(Caller) /\ Answer(Caller).status = 200
  /\ Answer(Caller).ctype = "text/plain" /\ Answer(Caller).body = "empty"
  /\ ~ ret[Caller].err.isnil

\* The positions of a call inside Response.
Executing(p) == pc[p] \in {"preflight", "send", "wire", "seek", "chk", "clear", "sleep"}
Failures(p) == Len(SelectSeq(out[p], LAMBDA o : o = "err"))

\* C38: the sleeps of a round trip are the first entries of 1, 1, 2, 3, 5, 8
\* in that order; an attempt begins only when every failure before it was
\* followed by its sleep; a round trip that returns the transport error of
\* its sixth failed attempt, the body absent or rewound each time, has slept
\* six times, the last time for 8 seconds; and there are never more sleeps than failed attempts, so none
\* follows an attempt that yielded a response.
C38_SleepSchedule ==
  \A p \in Procs :
    /\ Len(sleeps[p]) <= 6
    /\ \A k \in 1..Len(sleeps[p]) : sleeps[p][k] = <<1, 1, 2, 3, 5, 8>>[k]
    /\ Len(sleeps[p]) <= Failures(p)
    /\ pc[p] \in {"send", "wire"} => Len(sleeps[p]) = Failures(p)
    /\ (Returned(p) /\ Len(out[p]) = 6 /\ AllErr(out[p]) /\ ~ seekFail[p]
          /\ ret[p].err.msgs = <<"transport error">>) =>
         /\ net[p] = 6
         /\ sleeps[p] = <<1, 1, 2, 3, 5, 8>>
    /\ resp[p] # None => Len(sleeps[p]) = Len(out[p]) - 1

\* C38 witness: a round trip has returned the transport error of its sixth
\* attempt after six sleeps.
C38_Witness ==
  /\ op[Caller] = "Do" /\ Returned(Caller) /\ net[Caller] = 6 /\ AllErr(out[Caller])
  /\ ret[Caller].err.msgs = <<"transport error">>
  /\ sleeps[Caller] = <<1, 1, 2, 3, 5, 8>>

\* C36: a call inside Response has made at most six attempts and taken at
\* most six sleeps; once it has returned it makes no attempt and takes no
\* sleep until the thread begins another call; and when every attempt and
\* every sleep ends, every call inside Response returns.
C36_Terminates ==
  /\ [](\A p \in Procs : net[p] <= 6 /\ Len(sleeps[p]) <= 6)
  /\ [][\A p \in Procs :
          (Returned(p) /\ calls'[p] = calls[p]) =>
            (Returned(p)' /\ ~ Executing(p)' /\ net'[p] = net[p] /\ sleeps'[p] = sleeps[p])]_vars
  /\ \A p \in Procs : Executing(p) ~> Returned(p)

\* C36 witness: a round trip has returned after six attempts and six sleeps.
C36_Witness ==
  /\ Returned(Caller) /\ ~ Executing(Caller)
  /\ net[Caller] = 6 /\ Len(sleeps[Caller]) = 6

\* C34: the URL a descriptor gets from UrlFor or UrlForM is the endpoint, then
\* the session's proxy segment when it is non-empty, then /api/v3, then the
\* non-empty resource segments in the order given; UrlForM gives the entity's
\* prefix and key as the first two segments, and an empty key adds no segment.
UrlStepDone(p) ==
  /\ lastStep[p].name \in {"UrlFor", "UrlForM"}
  /\ r[p].err.Messages = prevR[p].err.Messages

C34_UrlOrder ==
  \A p \in Procs :
    UrlStepDone(p) =>
      LET a == lastStep[p].args
          u == r[p].uri[1]
          n == Len(u.path)
          k == IF r[p].proxy = "" THEN 0 ELSE 1
          kept == {i \in 1..Len(a) : a[i] # ""}
      IN  /\ r[p].uri # None
          /\ u.host = Endpoint
          /\ n = k + 2 + Cardinality(kept)
          /\ k = 1 => u.path[1] = r[p].proxy
          /\ u.path[k + 1] = "api" /\ u.path[k + 2] = "v3"
          /\ \A i \in kept :
               u.path[k + 2 + Cardinality({j \in kept : j <= i})] = a[i]
          /\ lastStep[p].name = "UrlForM" =>
               /\ u.path[k + 3] = r[p].err.Model
               /\ r[p].err.Key # "" => u.path[k + 4] = r[p].err.Key
               /\ r[p].err.Key = "" => n = k + 3 + (Len(a) - 2)

C34_Witness ==
  \E p \in Procs :
    /\ UrlStepDone(p)
    /\ lastStep[p].name = "UrlForM"
    /\ r[p].proxy # ""
    /\ r[p].err.Key = ""
    /\ Len(r[p].uri[1].path) = 5

\* C32: the proxy goroutine leaves its serving only when no socket is at its
\* path; it ends while no MakeProxy holds localProxyMux, and when it has
\* ended weAreTheProxy is false, RS_LOCAL_PROXY is unset and the transport of
\* the client it was started on is the direct one.
LoopLeaves(i) ==
  /\ Len(proxy.loops') = Len(proxy.loops)
  /\ proxy.loops[i].st = "serve"
  /\ proxy.loops'[i].st = "leave"

LoopExits(i) ==
  /\ proxy.loops[i].st = "leave"
  /\ proxy.loops' = [k \in 1..(Len(proxy.loops) - 1) |->
                      IF k < i THEN proxy.loops[k] ELSE proxy.loops[k + 1]]

C32_LoopExit ==
  [][\A i \in 1..Len(proxy.loops) :
       /\ LoopLeaves(i) => proxy.loops[i].path \notin proxy.sockets
       /\ LoopExits(i) =>
            /\ proxy.localProxyMux = 0
            /\ ~ proxy.weAreTheProxy'
            /\ proxy.env' = ""
            /\ proxy.gen[proxy.loops[i].owner] = proxy.loops[i].gen =>
                 proxy.transport'[proxy.loops[i].owner] = "direct"]_vars

\* C33: a URL is built with the host http://unix, and a transport that dials
\* a socket is built, only when the client may use a proxy, RS_LOCAL_PROXY is
\* set and a socket is at its path at that time; otherwise the URL has the
\* endpoint as host and the transport built is the direct one.
ProxyFound(neverProxy) ==
  ~ neverProxy /\ proxy.env # "" /\ proxy.env \in proxy.sockets

C33_LocallyProxied ==
  [][\A p \in Procs :
       /\ (proxy.url[p] = "" /\ proxy.url'[p] # "") =>
            proxy.url'[p] = IF ProxyFound(proxy.never[p]) THEN "http://unix" ELSE Endpoint
       /\ proxy.gen'[p] # proxy.gen[p] =>
            proxy.transport'[p] =
              IF ProxyFound(proxy.never'[p]) THEN proxy.env ELSE "direct"
       /\ (proxy.pc[p] = "env" /\ proxy.pc'[p] = "idle") =>
            proxy.transport'[p] = IF ProxyFound(FALSE) THEN proxy.env ELSE "direct"]_vars

\* C33 witness: a second session of the caller was built while a socket was
\* announced, its transport dials a socket, and the URL of a descriptor is
\* on http://unix.
C33_Witness ==
  /\ proxy.gen[Caller] = 2
  /\ proxy.transport[Caller] \in SocketPaths
  /\ proxy.url[Caller] = "http://unix"

Derived(p) ==
  /\ rtt > 0
  /\ xfer.ctx[p].d.ctx = "deadline"

Logged(p, e) == \E k \in 1..Len(xfer.ctx[p].log) : xfer.ctx[p].log[k] = e

C39_CancelOnReturn ==
  \A p \in Procs :
    LET c == xfer.ctx[p]
    IN  /\ (Derived(p) /\ c.st \in {"do", "done"}) => c.log[1] = "cancel"
        /\ c.st \in {"entry", "attempt", "return"} => c.log = <<>>
        /\ Logged(p, "read") => (Derived(p) <=> c.log = <<"cancel", "read">>)
        /\ ~ Derived(p) => ~ Logged(p, "cancel")

\* C39 witness: Do on a session with a RoundTripTimeout has got a response
\* under a derived context and has read its body.
C39_Witness ==
  /\ Derived(Caller)
  /\ xfer.ctx[Caller].op = "Do"
  /\ xfer.ctx[Caller].st = "done"
  /\ ~ xfer.ctx[Caller].failed
  /\ Logged(Caller, "read")
  /\ \E q \in Procs : xfer.ctx[q].d.ctx = "caller" /\ Logged(q, "read")

\* C40: every attempt of a round trip after its first carries the
\* Authorization header of the attempt before it, whatever the session's
\* token has become in between.
Attempt(p) == net'[p] = net[p] + 1

C40_SameAuthorization ==
  [][\A p \in Procs :
       (Attempt(p) /\ net[p] >= 1) =>
         /\ HeaderGet(r'[p].header, "Authorization") = HeaderGet(r[p].header, "Authorization")
         /\ HeaderGet(r[p].header, "Authorization") # ""]_vars

\* C40 witness: the second attempt of the caller's round trip is on the wire
\* with the bearer token of the first, while the session holds a newer one.
C40_Witness ==
  /\ pc[Caller] = "wire"
  /\ net[Caller] >= 2
  /\ token # ""
  /\ HeaderGet(r[Caller].header, "Authorization") # "Bearer " \o token

\* C35: no thread holds the mutex of token and closed flag and the mutex of
\* the cached Info together; a thread that is about to talk to the server or
\* to sleep holds neither, nor does one that has ended its call; and as long
\* as a thread has a call to go on with, some thread can take a step.
Holds(p) == {m \in {"mux", "iMux"} : xfer.lk[m] = p}

CanStep(p) ==
  /\ xfer.lk.todo[p] # <<>>
  /\ Head(xfer.lk.todo[p]) = "L:mux" => xfer.lk.mux = 0
  /\ Head(xfer.lk.todo[p]) = "L:iMux" => xfer.lk.iMux = 0

C35_LockDiscipline ==
  /\ \A p \in Procs :
       /\ Cardinality(Holds(p)) <= 1
       /\ (xfer.lk.todo[p] # <<>> /\ Head(xfer.lk.todo[p]) \in {"io", "sleep"}) => Holds(p) = {}
       /\ xfer.lk.todo[p] = <<>> => Holds(p) = {}
  /\ (\E p \in Procs : xfer.lk.todo[p] # <<>>) => \E p \in Procs : CanStep(p)

\* C35 witness: Close waits for the Info mutex, which a thread in Info
\* holds, while neither holds the other mutex.
C35_Witness ==
  \E p, q \in Procs :
    /\ p # q
    /\ Holds(p) = {"iMux"}
    /\ Holds(q) = {}
    /\ xfer.lk.todo[q] = ILocked
    /\ Len(xfer.lk.todo[p]) > 10
====
